---- MODULE Spec2Model ----
(***************************************************************************)
(* Verification model of the CLIProxyAPI request execution pipeline.       *)
(*                                                                         *)
(* Part 1 (SpecStream): the handler facade's streaming path,               *)
(*   BaseAPIHandler.ExecuteStreamWithAuthManager, together with the        *)
(*   stream-reader goroutine every provider executor spawns in            *)
(*   ExecuteStream, the client that consumes the two channels and the      *)
(*   cancellation of the request context.                                  *)
(* Part 2 (SpecManager): the auth manager's unary Execute loop and the     *)
(*   fill-first selector.                                                  *)
(***************************************************************************)
EXTENDS Integers, Sequences, FiniteSets, TLC

(***************************************************************************)
(* Bounds                                                                  *)
(***************************************************************************)
\* largest Streaming.BootstrapRetries value a configuration carries
MaxCfgRetries == 2
\* most chunks one stream-reader goroutine writes before its body ends
MaxChunks == 2
\* last tick of the clock
MaxTime == 2
\* number of direct Pick calls the history keeps
MaxPicks == 2
\* number of Execute requests made one after the other
MaxRequests == 2
\* the picks one priority bucket of the round-robin selector may serve
MaxCursor == 3

(***************************************************************************)
(* Values                                                                  *)
(***************************************************************************)
\* a nil *SDKConfig
NilCfg == [isNil |-> TRUE, BootstrapRetries |-> 0]
\* the configurations: nil, or one carrying Streaming.BootstrapRetries
Cfgs == {NilCfg} \cup
        {[isNil |-> FALSE, BootstrapRetries |-> r] : r \in -1 .. MaxCfgRetries}
\* a nil error
Nil == -1
\* an error is modelled by what StatusCode() returns; 0 is an error that
\* does not implement StatusCode() (a scanner or transport error)
ErrStatuses == {0, 400, 401, 503}
\* chunk payloads as byte strings; <<>> is the empty payload
Payloads == {<<>>, <<1>>, <<2>>}
\* one slot per AuthManager.ExecuteStream invocation of a stream
Attempts == 1 .. (MaxCfgRetries + 2)

VARIABLES
    cfg,              \* h.Cfg when the stream starts
    ctxDone,          \* the inbound context has been cancelled
    calls,            \* AuthManager.ExecuteStream invocations so far
    fpc,              \* facade position: start, recv, sendData, done
    cur,              \* the attempt whose channel the local `chunks` holds
    sentPayload,      \* local of the forwarding goroutine
    bootstrapRetries, \* local of the forwarding goroutine
    fpending,         \* payload the facade is blocked sending on dataChan
    dataChan,         \* "nil", "open" or "closed"
    dataCloses,       \* number of close(dataChan) executed
    errChan,          \* buffered (capacity 1) error channel: what the client finds in it
    errCloses,        \* number of close(errChan) executed
    errSends,         \* number of sends on errChan
    lateWrite,        \* a send hit a channel that was already closed
    received,         \* payloads the client took from dataChan, in order
    consumerStopped,  \* the client no longer receives
    epc,              \* reader goroutine of each attempt: unborn, read, send, closed
    epend,            \* the chunk a reader is blocked sending on `out`
    produced,         \* history: the chunks a reader has handed to `out <-`
    outCloses,        \* number of close(out) executed by each reader
    \* ---- auth manager and selector ----
    now,              \* the clock
    priority,         \* Attributes["priority"] of each auth
    modelState,       \* ModelState of each auth for the requested model
    mpc,              \* Manager.Execute position: idle, invoking, done
    reqProviders,     \* the provider tags of the running request
    reqMaxAttempts,   \* the configured maxAttempts (0: unset)
    working,          \* the working set of candidates of the request
    candCount,        \* number of candidates collected for the request
    attemptLog,       \* history: the executor invocations of the request
    result,           \* what Execute returned: "none", "ok" or a status
    pickLog,          \* history: the latest direct Pick calls
    requests,         \* number of Execute requests started
    \* ---- round-robin selector shared by goroutines ----
    cursors,          \* the counter of each priority bucket of the provider
    gpc,              \* each goroutine: idle, or inPick between fetch and return
    gsel,             \* what a goroutine in Pick holds: bucket, index, cooling set
    rrLog,            \* history: the latest returned round-robin picks
    \* ---- thinking configuration validation ----
    thSupport,        \* modelInfo.Thinking of the model (or nil)
    thProvider,       \* the provider the configuration is validated for
    thConfig,         \* the ThinkingConfig handed to ValidateConfig
    thResult,         \* what ValidateConfig returned for thConfig
    thAgain,          \* what ValidateConfig returned for its own result
    thpc,             \* input, validated, revalidated
    \* ---- thinking configuration applied to a request body ----
    atModel,          \* registry.ModelInfo of the base model (or nil)
    atProvider,       \* the provider whose applier is used
    atSuffix,         \* the raw thinking suffix of the model name ("": none)
    atBody,           \* the thinking-related fields of the request body
    atOut,            \* the body and error returned
    atpc,             \* input, applied, normalized
    \* ---- payload rules of the configuration applied to a request ----
    plRules,          \* cfg.Payload: Default, DefaultRaw, Override, OverrideRaw
    plPayload,        \* the translated payload
    plOriginal,       \* the original payload handed in (possibly empty)
    plOut,            \* what applyPayloadConfigWithRoot returned
    \* ---- a request through the Claude executor ----
    ceApiKey,         \* the credential of the selected auth
    ceTools,          \* tools[] of the request body
    ceToolChoice,     \* tool_choice of the request body
    ceHistory,        \* the content parts of the message history
    ceBetas,          \* the betas field of the request body
    ceClientBeta,     \* the Anthropic-Beta header the client sent
    ceSent,           \* the request handed to the upstream (or the error)
    ceResp,           \* the tool_use block of the response, upstream and client side
    \* ---- OAuth model-name mapping of the manager ----
    omAuth,           \* Provider, auth_kind attribute and account kind of the auth
    omMappings,       \* the configured mappings of each channel
    omRequested,      \* the model the client requested
    omMetadata,       \* the metadata of the request
    omOut,            \* what applyOAuthModelMapping returned
    \* ---- the user-ID cache of the Claude executor ----
    ucNow,            \* the wall clock, in units of half the TTL
    userIDCache,      \* cache key -> entry (value, expire)
    ucNextID,         \* the IDs generateFakeUserID has handed out so far
    ucProc,           \* each goroutine's position inside cachedUserID
    ucCalls,          \* the calls of cachedUserID: key, time read, generated and returned
                      \* ID, time of return, calls in progress when it began
    userIDCacheCleanupOnce, \* whether the cleanup goroutine was started
    ucCleanups,       \* the cleanup goroutines started so far
    ucPurgeNow,       \* the time purgeExpiredUserIDs read, -1 when it is not running
    \* ---- the signature cache ----
    sgNow,            \* the wall clock, in units of half the TTL
    sgModel,          \* the model whose signatures are cached
    signatureCache,   \* the session stored under the text hash, NoSession if none
    sgSessions,       \* the sessionCache objects created so far: the entry of each
    sgProc,           \* each goroutine's position inside CacheSignature or GetCachedSignature
    sgOps,            \* the operations that have returned: kind, time, result, and how
                      \* many operations had returned when each began
    sgPurge,          \* the position of purgeExpiredSessions
    sessionCleanupOnce, \* whether the cleanup goroutine was started
    \* ---- the error response ----
    weMsg,            \* the ErrorMessage given to WriteErrorResponse
    weCall,           \* the status and text passed to BuildErrorResponseBody
    weBody,           \* the body it returned
    \* ---- one call of the Antigravity executor ----
    fbOp,             \* Execute, executeClaudeNonStream, ExecuteStream or CountTokens
    fbAuth,           \* base_url of the auth's attributes and metadata
    fbBaseURLs,       \* the list antigravityBaseURLFallbackOrder returned
    fbIdx,            \* the position of the loop in that list
    fbRequests,       \* the upstream requests issued: base URL and what it met
    fbLast,           \* lastStatus and lastErr
    fbResult,         \* what the call returned
    fbpc,             \* idle, loop, done
    \* ---- a request from provider resolution to the upstream model name ----
    alMappings,       \* cfg.OAuthModelMappings: the alias entries of each channel
    alRegistry,       \* the model IDs registered for each credential
    alRequested,      \* the model the client requested
    alProviders,      \* the providers getRequestDetails returned
    alAuth,           \* the credential selected
    alOut,            \* the model and metadata handed to the executor
    alpc,             \* start, registered, resolved, rejected, selected, executed
    \* ---- the signature cache keyed by session ----
    scNow,            \* the clock of the session-keyed cache
    scSessions,       \* signatureCache: the entries of each session ID
    scLast,           \* what the last call did: its kind and what it evicted
    \* ---- the signature cache keyed by model group, many keys ----
    gcNow,            \* the clock of the cache
    gcSessions,       \* signatureCache: the session under each text hash
    gcLatest,         \* the signature cached last for each model group and text
    gcLast,           \* the last call and what it returned
    gcCaller,         \* the CacheSignature call that holds a session and has not stored
    gcPending         \* the session the sweeper found empty and has not deleted

streamVars == << cfg, ctxDone, calls, fpc, cur, sentPayload, bootstrapRetries,
                 fpending, dataChan, dataCloses, errChan, errCloses, errSends,
                 lateWrite, received, consumerStopped, epc, epend,
                 produced, outCloses >>

mgrVars == << now, priority, modelState, mpc, reqProviders, reqMaxAttempts,
              working, candCount, attemptLog, result, pickLog, requests >>

rrVars == << cursors, gpc, gsel, rrLog >>

\* the variables of the components other than the stream and the manager
thVars == << thSupport, thProvider, thConfig, thResult, thAgain, thpc >>

atVars == << atModel, atProvider, atSuffix, atBody, atOut, atpc >>

plVars == << plRules, plPayload, plOriginal, plOut >>

ceVars == << ceApiKey, ceTools, ceToolChoice, ceHistory, ceBetas, ceClientBeta,
             ceSent, ceResp >>

\* the components added after the payload rules
omVars == << omAuth, omMappings, omRequested, omMetadata, omOut >>

ucVars == << ucNow, userIDCache, ucNextID, ucProc, ucCalls, userIDCacheCleanupOnce,
            ucCleanups, ucPurgeNow >>

sgVars == << sgNow, sgModel, signatureCache, sgSessions, sgProc, sgOps, sgPurge,
            sessionCleanupOnce >>

erVars == << weMsg, weCall, weBody >>

fbVars == << fbOp, fbAuth, fbBaseURLs, fbIdx, fbRequests, fbLast, fbResult, fbpc >>

\* the components added after the error response
alVars == << alMappings, alRegistry, alRequested, alProviders, alAuth, alOut, alpc >>

scVars == << scNow, scSessions, scLast >>

gcVars == << gcNow, gcSessions, gcLatest, gcLast, gcCaller, gcPending >>

tailVars == << fbVars, alVars, scVars, gcVars >>

lateVars == << ceVars, omVars, ucVars, sgVars, erVars, tailVars >>

\* what an action of the Claude executor leaves alone
earlyVars == << streamVars, mgrVars, rrVars, thVars, atVars, plVars >>

exceptClaude == << earlyVars, omVars, ucVars, sgVars, erVars, tailVars >>

\* what the model-name mapping leaves alone
exceptMapping == << earlyVars, ceVars, ucVars, sgVars, erVars, tailVars >>

\* what the user-ID cache leaves alone
exceptUserID == << earlyVars, ceVars, omVars, sgVars, erVars, tailVars >>

\* what the signature cache leaves alone
exceptSig == << earlyVars, ceVars, omVars, ucVars, erVars, tailVars >>

\* what the error response leaves alone
exceptError == << earlyVars, ceVars, omVars, ucVars, sgVars, tailVars >>

\* what the Antigravity fallback leaves alone
exceptFallback == << earlyVars, ceVars, omVars, ucVars, sgVars, erVars, alVars, scVars, gcVars >>

\* what the alias resolution leaves alone
exceptAlias == << earlyVars, ceVars, omVars, ucVars, sgVars, erVars, fbVars, scVars, gcVars >>

\* what the session-keyed signature cache leaves alone
exceptSessionCache == << earlyVars, ceVars, omVars, ucVars, sgVars, erVars, fbVars, alVars, gcVars >>

\* what the signature cache keyed by model group leaves alone
exceptGroupCache == << earlyVars, ceVars, omVars, ucVars, sgVars, erVars, fbVars, alVars, scVars >>

otherVars == << rrVars, thVars, atVars, plVars, lateVars >>

vars == << streamVars, mgrVars, otherVars >>

(***************************************************************************)
(* Pure helpers of the facade                                              *)
(***************************************************************************)
\* StreamingBootstrapRetries: default 0 for a nil config, negative -> 0
StreamingBootstrapRetries(c) ==
    LET retries == IF ~c.isNil THEN c.BootstrapRetries ELSE 0
    IN  IF retries < 0 THEN 0 ELSE retries

\* statusFromError
statusFromError(err) ==
    IF err = Nil THEN 0 ELSE IF err > 0 THEN err ELSE 0

\* mutant: only server errors and errors without a status are retried
bootstrapEligible_NoAuthErrors(err) ==
    LET status == statusFromError(err)
    IN  IF status = 0 THEN TRUE
        ELSE status >= 500

\* the closure bootstrapEligible inside ExecuteStreamWithAuthManager
bootstrapEligible(err) ==
    LET status == statusFromError(err)
    IN  IF status = 0 THEN TRUE
        ELSE IF status \in {401, 403, 402, 408, 429} THEN TRUE
        ELSE status >= 500

\* mutant: the retry counter is compared with <= instead of <
mayBootstrapRetry_OffByOne(sent, retries, maxRetries, err) ==
    /\ ~sent
    /\ retries <= maxRetries
    /\ bootstrapEligible(err)

\* mutant: the retry is taken although payload was already forwarded
mayBootstrapRetry_IgnoresSent(sent, retries, maxRetries, err) ==
    /\ retries < maxRetries
    /\ bootstrapEligible(err)

\* the guard of the bootstrap retry: `!sentPayload` and
\* `bootstrapRetries < maxBootstrapRetries && bootstrapEligible(streamErr)`
mayBootstrapRetry(sent, retries, maxRetries, err) ==
    /\ ~sent
    /\ retries < maxRetries
    /\ bootstrapEligible(err)

\* StatusCode of the ErrorMessage built from an error
errorMessageStatus(err) ==
    IF err > 0 THEN err ELSE 500

\* mutant: the copy loses the last byte
cloneBytes_Truncating(src) ==
    IF Len(src) = 0 THEN << >> ELSE [i \in 1 .. Len(src) - 1 |-> src[i]]

\* cloneBytes: nil for an empty slice, a copy otherwise
cloneBytes(src) ==
    IF Len(src) = 0 THEN << >> ELSE [i \in 1 .. Len(src) |-> src[i]]

\* mutant: one-byte payloads are skipped as well
forwardable_SkipsShort(payload) == Len(payload) > 1

\* `if len(chunk.Payload) > 0`: only non-empty payloads are forwarded
forwardable(payload) == Len(payload) > 0

StreamChunk(payload, err) == [Payload |-> payload, Err |-> err]

NoChunk == StreamChunk(<< >>, Nil)

(***************************************************************************)
(* Channel operations with their Go semantics made observable              *)
(***************************************************************************)
\* mutant: the goroutine returns without closing errChan
FacadeReturn_NoErrClose ==
    /\ fpc' = "done"
    /\ dataChan' = "closed"
    /\ dataCloses' = dataCloses + 1
    /\ errCloses' = errCloses

\* the deferred close(dataChan); close(errChan) of the forwarding goroutine
FacadeReturn ==
    /\ fpc' = "done"
    /\ dataChan' = "closed"
    /\ dataCloses' = dataCloses + 1
    /\ errCloses' = errCloses + 1

\* errChan <- msg
SendErr(err) ==
    /\ errChan' = Append(errChan, errorMessageStatus(err))
    /\ errSends' = errSends + 1
    /\ lateWrite' = (lateWrite \/ errCloses > 0)

(***************************************************************************)
(* Auth manager and selector: values and pure helpers                      *)
(***************************************************************************)
\* auth IDs as digit strings: "1", "10", "2" (lexical order 1 < 10 < 2)
AuthIDs == { << 1 >>, << 1, 0 >>, << 2 >> }
\* Pick found no usable candidate
NoAuth == << >>
\* the goroutines sharing one RoundRobinSelector
Goroutines == {1, 2}
\* a goroutine outside Pick holds nothing
NoSel == [bucket |-> << >>, idx |-> 0, blocked |-> {}]
\* the provider tag of each auth
providerOf(a) == IF a = << 2 >> THEN "q" ELSE "p"
\* the provider sets a request is resolved to
ProviderSets == { {"p"}, {"p", "q"} }
\* the priorities an auth can carry
Priorities == {0, 10}
\* what an executor invocation returns: 200 is success, the rest the
\* StatusCode() of its error (0: a transport error without status)
ExecOutcomes == {200, 400, 401, 429, 500}
\* an attempt whose executor has not returned yet
Pending == -1
\* cooldown lengths, in clock ticks
TransientCooldown == 1
QuotaCooldown == 2
AuthCooldown == 2

FreshModelState ==
    [Unavailable |-> FALSE, NextRetryAfter |-> 0, QuotaExceeded |-> FALSE]

RECURSIVE LexLess(_, _)
\* lexical (byte-wise) order of two IDs
LexLess(x, y) ==
    IF x = << >> THEN y # << >>
    ELSE IF y = << >> THEN FALSE
    ELSE IF Head(x) < Head(y) THEN TRUE
    ELSE IF Head(x) > Head(y) THEN FALSE
    ELSE LexLess(Tail(x), Tail(y))

RECURSIVE InsertByID(_, _)
InsertByID(a, sorted) ==
    IF sorted = << >> THEN << a >>
    ELSE IF LexLess(a, Head(sorted)) THEN << a >> \o sorted
    ELSE << Head(sorted) >> \o InsertByID(a, Tail(sorted))

RECURSIVE SortByID(_)
\* the candidate list sorted by ID
SortByID(cands) ==
    IF cands = << >> THEN << >>
    ELSE InsertByID(Head(cands), SortByID(Tail(cands)))

\* mutant: a candidate in cooldown is not skipped
isAuthBlocked_Never(st, t) == FALSE

\* mutant: a cooldown never expires by the passing of time
isAuthBlocked_IgnoresTime(st, t) == st.Unavailable

\* an (auth, model) pair is skipped while its NextRetryAfter is in the future
isAuthBlocked(st, t) == st.Unavailable /\ st.NextRetryAfter > t

RECURSIVE MaxPriority(_, _)
MaxPriority(cands, prio) ==
    IF Len(cands) = 1 THEN prio[Head(cands)]
    ELSE LET rest == MaxPriority(Tail(cands), prio)
         IN  IF prio[Head(cands)] > rest THEN prio[Head(cands)] ELSE rest

\* the candidates of the highest priority bucket that has a candidate not
\* in cooldown, those in cooldown removed; slice order kept
availableTopBucket(cands, prio, states, t) ==
    LET Usable(a) == ~isAuthBlocked(states[a], t)
        avail == SelectSeq(cands, Usable)
    IN  IF avail = << >> THEN << >>
        ELSE LET top == MaxPriority(avail, prio)
                 InTop(a) == prio[a] = top
             IN  SelectSeq(avail, InTop)

\* mutant: the first available candidate of the slice is returned unsorted
FillFirstPick_Unsorted(cands, prio, states, t) ==
    LET bucket == availableTopBucket(cands, prio, states, t)
    IN  IF bucket = << >> THEN NoAuth ELSE bucket[1]

\* FillFirstSelector.Pick
FillFirstPick(cands, prio, states, t) ==
    LET bucket == availableTopBucket(cands, prio, states, t)
    IN  IF bucket = << >> THEN NoAuth ELSE SortByID(bucket)[1]

\* mutant: every 4xx status is treated like a transient failure
classify_All4xxRetryable(status) ==
    IF status \in {401, 403} THEN "auth"
    ELSE IF status \in {402, 429} THEN "quota"
    ELSE "transient"

\* the error kinds of the manager, by HTTP status
classify(status) ==
    IF status \in {401, 403} THEN "auth"
    ELSE IF status \in {402, 429} THEN "quota"
    ELSE IF status = 0 \/ status = 408 \/ status >= 500 THEN "transient"
    ELSE "client"

Retryable(status) == classify(status) # "client"

\* the (auth, model) state after a retryable failure at time t
stateAfterFailure(st, status, t) ==
    LET kind == classify(status)
    IN  IF kind = "auth"
        THEN [st EXCEPT !.Unavailable = TRUE,
                        !.NextRetryAfter = t + AuthCooldown]
        ELSE IF kind = "quota"
        THEN [st EXCEPT !.Unavailable = TRUE, !.QuotaExceeded = TRUE,
                        !.NextRetryAfter = t + QuotaCooldown]
        ELSE IF kind = "transient"
        THEN [st EXCEPT !.Unavailable = TRUE,
                        !.NextRetryAfter = t + TransientCooldown]
        ELSE st

\* mutant: the configured maxAttempts is ignored
attemptLimit_IgnoresMax(count, maxAttempts) == count

\* attempts per request: min(#candidates, maxAttempts), maxAttempts
\* defaulting to the candidate count when unset
attemptLimit(count, maxAttempts) ==
    IF maxAttempts <= 0 THEN count
    ELSE IF maxAttempts < count THEN maxAttempts ELSE count

\* mutant: a failed auth stays in the working set
dropFromWorking_Keeps(set, a) == set

\* a failed auth is dropped from the working set
dropFromWorking(set, a) == set \ {a}

\* all orders in which a set of auths can come as a candidate slice
Orders(S) ==
    { o \in [1 .. Cardinality(S) -> S] : \A i, j \in DOMAIN o : i # j => o[i] # o[j] }

NoResult == [kind |-> "none", status |-> 0]

\* the manager and selector at rest, no request running
ManagerAtStart ==
    /\ now = 0
    /\ modelState = [a \in AuthIDs |-> FreshModelState]
    /\ mpc = "idle"
    /\ reqProviders = {}
    /\ reqMaxAttempts = 0
    /\ working = {}
    /\ candCount = 0
    /\ attemptLog = << >>
    /\ result = NoResult
    /\ pickLog = << >>
    /\ requests = 0

ManagerIdle ==
    /\ priority = [a \in AuthIDs |-> 0]
    /\ ManagerAtStart

(***************************************************************************)
(* Initial state: a request is about to call ExecuteStreamWithAuthManager  *)
(***************************************************************************)
(***************************************************************************)
(* Thinking configuration: ThinkingConfig, ThinkingSupport, ValidateConfig *)
(***************************************************************************)
\* ThinkingConfig{}: the zero value has Mode = ModeBudget
EmptyConfig == [Mode |-> "budget", Budget |-> 0, Level |-> ""]

\* a model without a Thinking capability block
NilSupport == [isNil |-> TRUE, Min |-> 0, Max |-> 0, Levels |-> << >>,
               ZeroAllowed |-> FALSE, DynamicAllowed |-> FALSE]

\* the outcome of ValidateConfig: a normalized config, or an error
NoValidation == [ok |-> FALSE, err |-> "", cfg |-> EmptyConfig]
Valid(c) == [ok |-> TRUE, err |-> "", cfg |-> c]
Invalid(e) == [ok |-> FALSE, err |-> e, cfg |-> EmptyConfig]

ThinkingModes == {"budget", "level", "none", "auto"}
ThinkingLevels == {"", "none", "auto", "minimal", "low", "medium", "high",
                   "xhigh", "bogus"}
ThinkingBudgets == {-5, -1, 0, 1, 1024, 5000, 30000, 40000}
ThinkingProviders == {"claude", "gemini"}
BudgetRanges == { << 0, 0 >>, << 1024, 16000 >>, << 0, 24576 >>, << 128, 32768 >> }
LevelLists == { << >>, << "low", "high" >>, << "low", "medium", "high" >> }

\* the Thinking blocks of the registry: a numeric range, a level list or both
ThinkingSupports ==
    { [isNil |-> FALSE, Min |-> r[1], Max |-> r[2], Levels |-> l,
       ZeroAllowed |-> z, DynamicAllowed |-> d] :
         r \in BudgetRanges, l \in LevelLists, z \in BOOLEAN, d \in BOOLEAN }

\* the capability blocks a registered model can carry, nil included
ModelSupports ==
    { m \in ThinkingSupports : m.Max > 0 \/ m.Levels # << >> } \cup { NilSupport }

ThinkingConfigs ==
    [Mode : ThinkingModes, Budget : ThinkingBudgets, Level : ThinkingLevels]

\* detectModelCapability: from the presence of {Min, Max} and of Levels
detectModelCapability(support) ==
    LET hasBudget == support.Min > 0 \/ support.Max > 0
        hasLevels == Len(support.Levels) > 0
    IN  IF support.isNil THEN "unknown"
        ELSE IF hasBudget /\ hasLevels THEN "hybrid"
        ELSE IF hasBudget THEN "budgetOnly"
        ELSE IF hasLevels THEN "levelOnly"
        ELSE "unknown"

\* ConvertLevelToBudget: the canonical budget of a level name
ConvertLevelToBudget(level) ==
    IF level = "minimal" THEN [ok |-> TRUE, budget |-> 512]
    ELSE IF level = "low" THEN [ok |-> TRUE, budget |-> 1024]
    ELSE IF level = "medium" THEN [ok |-> TRUE, budget |-> 8192]
    ELSE IF level = "high" THEN [ok |-> TRUE, budget |-> 24576]
    ELSE IF level = "xhigh" THEN [ok |-> TRUE, budget |-> 32768]
    ELSE [ok |-> FALSE, budget |-> 0]

\* ConvertBudgetToLevel: 0 -> lowest, 1..1024 -> low, <= 8192 -> medium,
\* <= 24576 -> high, above -> highest; a negative budget has no level
ConvertBudgetToLevel(budget) ==
    IF budget < 0 THEN [ok |-> FALSE, level |-> ""]
    ELSE IF budget = 0 THEN [ok |-> TRUE, level |-> "minimal"]
    ELSE IF budget <= 1024 THEN [ok |-> TRUE, level |-> "low"]
    ELSE IF budget <= 8192 THEN [ok |-> TRUE, level |-> "medium"]
    ELSE IF budget <= 24576 THEN [ok |-> TRUE, level |-> "high"]
    ELSE [ok |-> TRUE, level |-> "xhigh"]

\* isLevelSupported
isLevelSupported(level, supported) ==
    \E i \in DOMAIN supported : supported[i] = level

\* mutant: a budget below the range is left as it is
ClampBudget_NoLowerClamp(value, support) ==
    IF support.isNil THEN value
    ELSE IF value = -1 THEN value
    ELSE IF value = 0 /\ ~support.ZeroAllowed THEN support.Min
    ELSE IF support.Min = 0 /\ support.Max = 0 THEN value
    ELSE IF value > support.Max THEN support.Max
    ELSE value

\* ClampBudget
ClampBudget(value, support) ==
    IF support.isNil THEN value
    ELSE IF value = -1 THEN value
    ELSE IF value = 0 /\ ~support.ZeroAllowed THEN support.Min
    ELSE IF support.Min = 0 /\ support.Max = 0 THEN value
    ELSE IF value < support.Min
         THEN IF value = 0 /\ support.ZeroAllowed THEN 0 ELSE support.Min
    ELSE IF value > support.Max THEN support.Max
    ELSE value

\* convertAutoToMidRange
convertAutoToMidRange(config, support) ==
    IF Len(support.Levels) > 0 /\ support.Min = 0 /\ support.Max = 0
    THEN [config EXCEPT !.Mode = "level", !.Level = "medium", !.Budget = 0]
    ELSE LET mid == (support.Min + support.Max) \div 2
         IN  IF mid <= 0 /\ support.ZeroAllowed
             THEN [config EXCEPT !.Mode = "none", !.Budget = 0]
             ELSE IF mid <= 0
             THEN [config EXCEPT !.Mode = "budget", !.Budget = support.Min]
             ELSE [config EXCEPT !.Mode = "budget", !.Budget = mid]

\* ValidateConfig, the capability switch: level <-> budget conversion
convertByCapability(config, support) ==
    LET capability == detectModelCapability(support)
    IN  IF capability = "budgetOnly" /\ config.Mode = "level"
             /\ config.Level # "auto"
        THEN LET conv == ConvertLevelToBudget(config.Level)
             IN  IF ~conv.ok THEN Invalid("UnknownLevel")
                 ELSE Valid([Mode |-> "budget", Budget |-> conv.budget,
                             Level |-> ""])
        ELSE IF capability = "levelOnly" /\ config.Mode = "budget"
        THEN LET conv == ConvertBudgetToLevel(config.Budget)
             IN  IF ~conv.ok THEN Invalid("UnknownLevel")
                 ELSE Valid([Mode |-> "level", Level |-> conv.level,
                             Budget |-> 0])
        ELSE Valid(config)

\* ValidateConfig, the three rewrites of none, auto and a zero budget
foldSpecialValues(c) ==
    LET c1 == IF c.Mode = "level" /\ c.Level = "none"
              THEN [Mode |-> "none", Budget |-> 0, Level |-> ""] ELSE c
        c2 == IF c1.Mode = "level" /\ c1.Level = "auto"
              THEN [Mode |-> "auto", Budget |-> -1, Level |-> ""] ELSE c1
    IN  IF c2.Mode = "budget" /\ c2.Budget = 0
        THEN [c2 EXCEPT !.Mode = "none", !.Level = ""] ELSE c2

\* mutant: the budget of Mode none is not clamped
finishValidation_NoneUnclamped(c, support, provider) ==
    LET c1 == IF c.Mode = "auto" /\ ~support.DynamicAllowed
              THEN convertAutoToMidRange(c, support) ELSE c
    IN  IF c1.Mode = "none" /\ provider = "claude"
        THEN [c1 EXCEPT !.Budget = 0, !.Level = ""]
        ELSE IF c1.Mode \in {"budget", "auto"}
        THEN [c1 EXCEPT !.Budget = ClampBudget(c1.Budget, support)]
        ELSE c1

\* ValidateConfig, the tail: auto to mid-range, then clamping
finishValidation(c, support, provider) ==
    LET c1 == IF c.Mode = "auto" /\ ~support.DynamicAllowed
              THEN convertAutoToMidRange(c, support) ELSE c
    IN  IF c1.Mode = "none" /\ provider = "claude"
        THEN [c1 EXCEPT !.Budget = 0, !.Level = ""]
        ELSE LET c2 == IF c1.Mode \in {"budget", "auto", "none"}
                       THEN [c1 EXCEPT !.Budget = ClampBudget(c1.Budget, support)]
                       ELSE c1
             IN  IF c2.Mode = "none" /\ c2.Budget > 0 /\ Len(support.Levels) > 0
                 THEN [c2 EXCEPT !.Level = support.Levels[1]]
                 ELSE c2

\* ValidateConfig
ValidateConfig(config, support, provider) ==
    IF support.isNil
    THEN IF config.Mode # "none" THEN Invalid("ThinkingNotSupported")
         ELSE Valid(config)
    ELSE LET conv == convertByCapability(config, support)
         IN  IF ~conv.ok THEN conv
             ELSE LET c == foldSpecialValues(conv.cfg)
                  IN  IF Len(support.Levels) > 0 /\ c.Mode = "level"
                           /\ ~isLevelSupported(c.Level, support.Levels)
                      THEN Invalid("LevelNotSupported")
                      ELSE Valid(finishValidation(c, support, provider))

(***************************************************************************)
(* Thinking configuration applied to a request body: ApplyThinking, the    *)
(* Claude and Antigravity appliers, normalizeAntigravityThinking           *)
(***************************************************************************)
\* a JSON field that does not exist
Absent == -99

\* the thinking-related fields of a request body: Claude's thinking.type and
\* thinking.budget_tokens, and Antigravity's request.generationConfig
\* thinkingConfig.{thinkingLevel, thinkingBudget, includeThoughts} and
\* maxOutputTokens
EmptyBody == [ctype |-> "", cbudget |-> Absent, tlevel |-> "",
              tbudget |-> Absent, include |-> "absent", maxOut |-> Absent]

NoOutput == [body |-> EmptyBody, err |-> ""]

\* an unknown model: registry.LookupModelInfo returned nil
NilModel == [isNil |-> TRUE, UserDefined |-> FALSE, isClaude |-> FALSE,
             Thinking |-> NilSupport, MaxCompletionTokens |-> 0]

ClaudeBodies ==
    { [EmptyBody EXCEPT !.ctype = t, !.cbudget = b] :
         t \in {"", "enabled", "disabled"}, b \in {Absent, -1, 0, 2000} }

AntigravityBodies ==
    { [EmptyBody EXCEPT !.tlevel = l, !.tbudget = b, !.include = i, !.maxOut = m] :
         l \in {"", "high"}, b \in {Absent, -1, 0, 500, 5000, 300000},
         i \in {"absent", "true"}, m \in {Absent, 1000, 4000} }

BodiesOf(provider) ==
    IF provider = "claude" THEN ClaudeBodies ELSE AntigravityBodies

\* the suffixes of a model name: none, the special values, a level name,
\* numbers, and an unrecognised one
RawSuffixes == {"", "none", "auto", "high", "0", "8192", "bogus"}

ApplySupports ==
    { m \in ModelSupports :
         \/ m.isNil
         \/ /\ << m.Min, m.Max >> \in { << 0, 0 >>, << 1024, 16000 >> }
            /\ m.Levels \in { << >>, << "low", "high" >> } }

ApplyModels ==
    { [isNil |-> FALSE, UserDefined |-> u, isClaude |-> c, Thinking |-> t,
       MaxCompletionTokens |-> k] :
         u \in BOOLEAN, c \in BOOLEAN, t \in ApplySupports, k \in {4000, 64000} }
    \cup { NilModel }

\* gjson Exists() of request.generationConfig.thinkingConfig
hasThinkingConfigField(body) ==
    body.tlevel # "" \/ body.tbudget # Absent \/ body.include # "absent"

\* sjson.DeleteBytes(payload, "request.generationConfig.thinkingConfig")
deleteThinkingConfig(body) ==
    [body EXCEPT !.tlevel = "", !.tbudget = Absent, !.include = "absent"]

\* IsUserDefinedModel
IsUserDefinedModel(model) == model.isNil \/ model.UserDefined

\* hasThinkingConfig
hasThinkingConfig(config) ==
    config.Mode # "budget" \/ config.Budget # 0 \/ config.Level # ""

\* ParseNumericSuffix: the decimal value of a numeric suffix
ParseNumericSuffix(raw) ==
    IF raw = "0" THEN [ok |-> TRUE, budget |-> 0]
    ELSE IF raw = "8192" THEN [ok |-> TRUE, budget |-> 8192]
    ELSE [ok |-> FALSE, budget |-> 0]

\* parseSuffixToConfig
parseSuffixToConfig(raw) ==
    IF raw = "none" THEN [Mode |-> "none", Budget |-> 0, Level |-> ""]
    ELSE IF raw \in {"auto", "-1"} THEN [Mode |-> "auto", Budget |-> -1, Level |-> ""]
    ELSE IF raw \in {"minimal", "low", "medium", "high", "xhigh"}
    THEN [Mode |-> "level", Budget |-> 0, Level |-> raw]
    ELSE LET num == ParseNumericSuffix(raw)
         IN  IF ~num.ok THEN EmptyConfig
             ELSE IF num.budget = 0 THEN [Mode |-> "none", Budget |-> 0, Level |-> ""]
             ELSE [Mode |-> "budget", Budget |-> num.budget, Level |-> ""]

\* extractClaudeConfig
extractClaudeConfig(body) ==
    IF body.ctype = "disabled" THEN [Mode |-> "none", Budget |-> 0, Level |-> ""]
    ELSE IF body.cbudget # Absent
    THEN IF body.cbudget = 0 THEN [Mode |-> "none", Budget |-> 0, Level |-> ""]
         ELSE IF body.cbudget = -1 THEN [Mode |-> "auto", Budget |-> -1, Level |-> ""]
         ELSE [Mode |-> "budget", Budget |-> body.cbudget, Level |-> ""]
    ELSE IF body.ctype = "enabled" THEN [Mode |-> "auto", Budget |-> -1, Level |-> ""]
    ELSE EmptyConfig

\* extractGeminiConfig with the "request." prefix
extractGeminiConfig(body) ==
    IF body.tlevel # ""
    THEN IF body.tlevel = "none" THEN [Mode |-> "none", Budget |-> 0, Level |-> ""]
         ELSE IF body.tlevel = "auto" THEN [Mode |-> "auto", Budget |-> -1, Level |-> ""]
         ELSE [Mode |-> "level", Budget |-> 0, Level |-> body.tlevel]
    ELSE IF body.tbudget # Absent
    THEN IF body.tbudget = 0 THEN [Mode |-> "none", Budget |-> 0, Level |-> ""]
         ELSE IF body.tbudget = -1 THEN [Mode |-> "auto", Budget |-> -1, Level |-> ""]
         ELSE [Mode |-> "budget", Budget |-> body.tbudget, Level |-> ""]
    ELSE EmptyConfig

\* extractThinkingConfig
extractThinkingConfig(body, provider) ==
    IF provider = "claude" THEN extractClaudeConfig(body)
    ELSE extractGeminiConfig(body)

\* StripThinkingConfig
StripThinkingConfig(body, provider) ==
    IF provider = "claude"
    THEN [body EXCEPT !.ctype = "", !.cbudget = Absent]
    ELSE deleteThinkingConfig(body)

\* applyCompatibleClaude
applyCompatibleClaude(body, config) ==
    IF config.Mode \notin {"budget", "none", "auto"} THEN body
    ELSE IF config.Mode = "none"
    THEN [body EXCEPT !.ctype = "disabled", !.cbudget = Absent]
    ELSE IF config.Mode = "auto"
    THEN [body EXCEPT !.ctype = "enabled", !.cbudget = Absent]
    ELSE [body EXCEPT !.ctype = "enabled", !.cbudget = config.Budget]

\* claude.Applier.Apply
claudeApply(body, config, model) ==
    IF IsUserDefinedModel(model) THEN applyCompatibleClaude(body, config)
    ELSE IF model.Thinking.isNil THEN body
    ELSE IF config.Mode \notin {"budget", "none"} THEN body
    ELSE IF config.Budget = 0
    THEN [body EXCEPT !.ctype = "disabled", !.cbudget = Absent]
    ELSE [body EXCEPT !.ctype = "enabled", !.cbudget = config.Budget]

\* antigravity.Applier.applyLevelFormat
applyLevelFormat(body, config) ==
    LET cleaned == [body EXCEPT !.tbudget = Absent]
    IN  IF config.Mode = "none"
        THEN [cleaned EXCEPT !.include = "false",
                            !.tlevel = IF config.Level # "" THEN config.Level ELSE @]
        ELSE IF config.Mode # "level" THEN body
        ELSE [cleaned EXCEPT !.tlevel = config.Level, !.include = "true"]

\* effectiveMaxTokens / antigravityEffectiveMaxTokens: [max, fromModel]
effectiveMaxTokens(body, model) ==
    IF body.maxOut # Absent /\ body.maxOut > 0
    THEN [max |-> body.maxOut, fromModel |-> FALSE]
    ELSE IF ~model.isNil /\ model.MaxCompletionTokens > 0
    THEN [max |-> model.MaxCompletionTokens, fromModel |-> TRUE]
    ELSE [max |-> 0, fromModel |-> FALSE]

\* mutant: the budget is not capped below the output token limit
capBelowMax_NoCap(budget, max) == budget

\* a budget at or above the effective maximum becomes the maximum minus one
capBelowMax(budget, max) ==
    IF max > 0 /\ budget >= max THEN max - 1 ELSE budget

\* antigravity.Applier.normalizeClaudeBudget: [budget, body], budget -2
\* when thinkingConfig was removed
normalizeClaudeBudget(budget, body, model) ==
    IF model.isNil THEN [budget |-> budget, body |-> body]
    ELSE LET eff == effectiveMaxTokens(body, model)
             capped == capBelowMax(budget, eff.max)
             minBudget == IF ~model.Thinking.isNil THEN model.Thinking.Min ELSE 0
         IN  IF minBudget > 0 /\ capped >= 0 /\ capped < minBudget
             THEN [budget |-> -2, body |-> deleteThinkingConfig(body)]
             ELSE [budget |-> capped,
                   body |-> IF eff.fromModel /\ eff.max > 0
                            THEN [body EXCEPT !.maxOut = eff.max] ELSE body]

\* antigravity.Applier.applyBudgetFormat
applyBudgetFormat(body, config, model, isClaude) ==
    LET cleaned == [body EXCEPT !.tlevel = ""]
        includeThoughts == IF config.Mode = "none" THEN "false"
                           ELSE IF config.Mode = "auto" THEN "true"
                           ELSE IF config.Budget > 0 THEN "true" ELSE "false"
        norm == IF isClaude /\ ~model.isNil
                THEN normalizeClaudeBudget(config.Budget, cleaned, model)
                ELSE [budget |-> config.Budget, body |-> cleaned]
    IN  IF norm.budget = -2 THEN norm.body
        ELSE [norm.body EXCEPT !.tbudget = norm.budget, !.include = includeThoughts]

\* antigravity.Applier.applyCompatible
antigravityApplyCompatible(body, config, model) ==
    LET isClaude == ~model.isNil /\ model.isClaude
    IN  IF config.Mode = "auto" THEN applyBudgetFormat(body, config, model, isClaude)
        ELSE IF config.Mode = "level" \/ (config.Mode = "none" /\ config.Level # "")
        THEN applyLevelFormat(body, config)
        ELSE applyBudgetFormat(body, config, model, isClaude)

\* antigravity.Applier.Apply
antigravityApply(body, config, model) ==
    IF IsUserDefinedModel(model) THEN antigravityApplyCompatible(body, config, model)
    ELSE IF model.Thinking.isNil THEN body
    ELSE IF config.Mode \in {"auto", "budget"}
    THEN applyBudgetFormat(body, config, model, model.isClaude)
    ELSE IF Len(model.Thinking.Levels) > 0 THEN applyLevelFormat(body, config)
    ELSE applyBudgetFormat(body, config, model, model.isClaude)

\* ProviderApplier.Apply of the registered applier
providerApply(body, config, model, provider) ==
    IF provider = "claude" THEN claudeApply(body, config, model)
    ELSE antigravityApply(body, config, model)

\* mutant: the body configuration is used even when a suffix is present
selectConfig_BodyFirst(body, raw, provider) ==
    IF hasThinkingConfig(extractThinkingConfig(body, provider))
    THEN extractThinkingConfig(body, provider)
    ELSE parseSuffixToConfig(raw)

\* ApplyThinking step 4: suffix priority over body
selectConfig(body, raw, provider) ==
    IF raw # "" THEN parseSuffixToConfig(raw)
    ELSE extractThinkingConfig(body, provider)

\* applyUserDefinedModel
applyUserDefinedModel(body, raw, model, provider) ==
    LET config == selectConfig(body, raw, provider)
    IN  IF ~hasThinkingConfig(config) THEN [body |-> body, err |-> ""]
        ELSE [body |-> providerApply(body, config, model, provider), err |-> ""]

\* ApplyThinking
ApplyThinking(body, raw, model, provider) ==
    IF IsUserDefinedModel(model)
    THEN applyUserDefinedModel(body, raw, model, provider)
    ELSE IF model.Thinking.isNil
    THEN IF hasThinkingConfig(extractThinkingConfig(body, provider))
         THEN [body |-> StripThinkingConfig(body, provider), err |-> ""]
         ELSE [body |-> body, err |-> ""]
    ELSE LET config == selectConfig(body, raw, provider)
         IN  IF ~hasThinkingConfig(config) THEN [body |-> body, err |-> ""]
             ELSE LET validated == ValidateConfig(config, model.Thinking, provider)
                  IN  IF ~validated.ok THEN [body |-> body, err |-> validated.err]
                      ELSE [body |-> providerApply(body, validated.cfg, model, provider),
                            err |-> ""]

\* util.NormalizeThinkingBudget
NormalizeThinkingBudget(model, budget) ==
    LET t == model.Thinking
        found == ~model.isNil /\ ~t.isNil
        mid == (t.Min + t.Max) \div 2
    IN  IF ~found THEN budget
        ELSE IF budget = -1
        THEN IF t.DynamicAllowed THEN -1
             ELSE IF mid <= 0 /\ t.ZeroAllowed THEN 0
             ELSE IF mid <= 0 THEN t.Min
             ELSE mid
        ELSE IF budget = 0 THEN (IF t.ZeroAllowed THEN 0 ELSE t.Min)
        ELSE IF budget < t.Min THEN t.Min
        ELSE IF budget > t.Max THEN t.Max
        ELSE budget

\* normalizeAntigravityThinking
normalizeAntigravityThinking(model, payload, isClaude) ==
    LET supports == ~model.isNil /\ ~model.Thinking.isNil
        stripped == IF supports THEN payload ELSE deleteThinkingConfig(payload)
    IN  IF ~supports THEN stripped
        ELSE IF stripped.tbudget = Absent THEN stripped
        ELSE LET normalized == NormalizeThinkingBudget(model, stripped.tbudget)
                 eff == effectiveMaxTokens(stripped, model)
                 capped == IF isClaude THEN capBelowMax(normalized, eff.max)
                           ELSE normalized
                 minBudget == model.Thinking.Min
             IN  IF isClaude /\ minBudget > 0 /\ capped >= 0 /\ capped < minBudget
                 THEN deleteThinkingConfig(stripped)
                 ELSE LET withMax == IF isClaude /\ eff.fromModel
                                     THEN [stripped EXCEPT !.maxOut = eff.max]
                                     ELSE stripped
                      IN  [withMax EXCEPT !.tbudget = capped]

(***************************************************************************)
(* Payload rules of the configuration (applyPayloadConfigWithRoot)         *)
(*                                                                         *)
(* A JSON document is the function from its paths to their values, Absent  *)
(* where the document has no such path; a byte slice is a document or      *)
(* empty.  The paths are full paths: the root is already joined in.        *)
(* Model names and patterns are sequences of characters.                   *)
(***************************************************************************)
PayloadFields == {"a", "b"}

PayloadDocs == [PayloadFields -> {Absent, 0}]

EmptyBytes == [empty |-> TRUE, doc |-> [f \in PayloadFields |-> Absent]]

Bytes(doc) == [empty |-> FALSE, doc |-> doc]

\* the model and the protocol of the request the rules are applied to
RequestModel == << "g", "p", "t", "-", "5" >>

RequestProtocol == "gemini"

\* the models of a rule that applies to the request, and of one that does
\* not (a pattern for other names, and an entry of another protocol)
MatchingModels == << [Name |-> << "*", "-", "5" >>, Protocol |-> ""] >>

OtherModels == << [Name |-> << "g", "e", "m", "*" >>, Protocol |-> ""],
                  [Name |-> << "*" >>, Protocol |-> "claude"] >>

\* the rules of a value-typed list and of a raw list: each sets one path;
\* the raw values are valid JSON
PlainRules ==
    { [Models |-> MatchingModels,
       Params |-> [g \in PayloadFields |-> IF g = f THEN v ELSE Absent]] :
        f \in PayloadFields, v \in {1, 2} }
    \cup
    { [Models |-> OtherModels,
       Params |-> [g \in PayloadFields |-> IF g = f THEN 1 ELSE Absent]] :
        f \in PayloadFields }

RawRules ==
    { [Models |-> MatchingModels,
       Params |-> [g \in PayloadFields |-> IF g = f THEN 3 ELSE Absent]] :
        f \in PayloadFields }

PlainRuleLists ==
    {<< >>} \cup { << r >> : r \in PlainRules }
            \cup { << r, q >> : r \in PlainRules, q \in PlainRules }

RawRuleLists == {<< >>} \cup { << r >> : r \in RawRules }

NoRules == [Default |-> << >>, DefaultRaw |-> << >>,
            Override |-> << >>, OverrideRaw |-> << >>]

NotApplied == [returned |-> FALSE, bytes |-> EmptyBytes]

gjsonExists(bytes, path) == ~bytes.empty /\ bytes.doc[path] # Absent

sjsonSet(bytes, path, value) == Bytes([bytes.doc EXCEPT ![path] = value])

\* '*' matches zero or more characters, any other character itself
RECURSIVE globMatch(_, _)
globMatch(pattern, model) ==
    IF pattern = << >> THEN model = << >>
    ELSE IF Head(pattern) = "*"
         THEN \/ globMatch(Tail(pattern), model)
              \/ model # << >> /\ globMatch(pattern, Tail(model))
    ELSE /\ model # << >>
         /\ Head(pattern) = Head(model)
         /\ globMatch(Tail(pattern), Tail(model))

matchModelPattern(pattern, model) ==
    IF pattern = << >> THEN FALSE
    ELSE IF pattern = << "*" >> THEN TRUE
    ELSE globMatch(pattern, model)

payloadRuleMatchesModel(rule, model, protocol) ==
    \E i \in 1 .. Len(rule.Models) :
        LET entry == rule.Models[i]
        IN  /\ entry.Name # << >>
            /\ ~(entry.Protocol # "" /\ protocol # "" /\ entry.Protocol # protocol)
            /\ matchModelPattern(entry.Name, model)

\* no OAuth model alias is configured: the model is its only candidate
payloadModelCandidates(model, protocol) ==
    IF model = << >> THEN << >> ELSE << model >>

payloadRuleMatchesModels(rule, protocol, models) ==
    \E i \in 1 .. Len(models) : payloadRuleMatchesModel(rule, models[i], protocol)

\* the document the default rules are checked against
payloadSource_IgnoresOriginal(payload, original) == payload

payloadSource(payload, original) == IF original.empty THEN payload ELSE original

\* the paths a rule sets
ruleParams(rule) == { f \in PayloadFields : rule.Params[f] # Absent }

\* one path of a default rule: written unless the source has it or an
\* earlier default wrote it
applyDefaultParam_LastWins(st, path, value, source) ==
    IF gjsonExists(source, path) THEN st
    ELSE [out |-> sjsonSet(st.out, path, value),
          appliedDefaults |-> st.appliedDefaults \cup {path}]

applyDefaultParam(st, path, value, source) ==
    IF gjsonExists(source, path) THEN st
    ELSE IF path \in st.appliedDefaults THEN st
    ELSE [out |-> sjsonSet(st.out, path, value),
          appliedDefaults |-> st.appliedDefaults \cup {path}]

\* the paths of one rule are distinct, so their order does not matter
RECURSIVE applyDefaultParams(_, _, _, _)
applyDefaultParams(st, rule, paths, source) ==
    IF paths = {} THEN st
    ELSE LET path == CHOOSE f \in paths : TRUE
         IN  applyDefaultParams(applyDefaultParam(st, path, rule.Params[path], source),
                                rule, paths \ {path}, source)

RECURSIVE applyOverrideParams(_, _, _)
applyOverrideParams(st, rule, paths) ==
    IF paths = {} THEN st
    ELSE LET path == CHOOSE f \in paths : TRUE
         IN  applyOverrideParams([st EXCEPT !.out = sjsonSet(st.out, path, rule.Params[path])],
                                 rule, paths \ {path})

\* the loop over one default list, from rule i on
RECURSIVE applyDefaultRules(_, _, _, _, _, _)
applyDefaultRules(st, list, i, source, protocol, candidates) ==
    IF i > Len(list) THEN st
    ELSE IF ~payloadRuleMatchesModels(list[i], protocol, candidates)
         THEN applyDefaultRules(st, list, i + 1, source, protocol, candidates)
    ELSE applyDefaultRules(applyDefaultParams(st, list[i], ruleParams(list[i]), source),
                           list, i + 1, source, protocol, candidates)

\* the loop over one override list, from rule i on
RECURSIVE applyOverrideRules(_, _, _, _, _)
applyOverrideRules(st, list, i, protocol, candidates) ==
    IF i > Len(list) THEN st
    ELSE IF ~payloadRuleMatchesModels(list[i], protocol, candidates)
         THEN applyOverrideRules(st, list, i + 1, protocol, candidates)
    ELSE applyOverrideRules(applyOverrideParams(st, list[i], ruleParams(list[i])),
                            list, i + 1, protocol, candidates)

applyPayloadConfigWithRoot(rules, model, protocol, payload, original) ==
    IF payload.empty THEN payload
    ELSE IF /\ Len(rules.Default) = 0 /\ Len(rules.DefaultRaw) = 0
            /\ Len(rules.Override) = 0 /\ Len(rules.OverrideRaw) = 0
         THEN payload
    ELSE IF model = << >> THEN payload
    ELSE LET candidates == payloadModelCandidates(model, protocol)
             source == payloadSource(payload, original)
             st0 == [out |-> payload, appliedDefaults |-> {}]
             st1 == applyDefaultRules(st0, rules.Default, 1, source, protocol, candidates)
             st2 == applyDefaultRules(st1, rules.DefaultRaw, 1, source, protocol, candidates)
             st3 == applyOverrideRules(st2, rules.Override, 1, protocol, candidates)
             st4 == applyOverrideRules(st3, rules.OverrideRaw, 1, protocol, candidates)
         IN  st4.out

\* no payload rules are being applied
PayloadIdle ==
    /\ plRules = NoRules
    /\ plPayload = EmptyBytes
    /\ plOriginal = EmptyBytes
    /\ plOut = NotApplied

(***************************************************************************)
(* The Claude executor: tool prefix, betas, forced tool choice             *)
(*                                                                         *)
(* A tool name is the number of leading "proxy_" it carries and the rest   *)
(* of it, which does not begin with "proxy_".  A beta entry is the         *)
(* sequence of its words, so that "contains oauth" is a membership.        *)
(***************************************************************************)
claudeToolPrefix == "proxy_"

NoName == [n |-> 0, base |-> ""]

ToolNames == { NoName, [n |-> 0, base |-> "Read"], [n |-> 1, base |-> "Read"],
               [n |-> 0, base |-> "web_search"] }

\* a tools[] entry: custom (no type) or built-in (typed)
ToolEntries == [type : {"", "web_search_20250305"}, name : ToolNames]

ToolLists == {<< >>} \cup { << t >> : t \in ToolEntries }
                     \cup { << t, u >> : t \in ToolEntries, u \in ToolEntries }

NoToolChoice == [type |-> "", name |-> NoName]

ToolChoices == { NoToolChoice, [type |-> "auto", name |-> NoName],
                 [type |-> "any", name |-> NoName] }
               \cup { [type |-> "tool", name |-> n] : n \in ToolNames }

\* content parts of the history: tool_use blocks, and a text part
HistoryParts == { [type |-> "tool_use", name |-> n] : n \in ToolNames }
                \cup { [type |-> "text", name |-> [n |-> 0, base |-> "Read"]] }

Histories == {<< >>} \cup { << h >> : h \in HistoryParts }

OAuthKey == "sk-ant-oat01-token"

PlainKey == "sk-ant-api03-key"

OAuthBeta == << "oauth", "2025-04-20" >>

OldOAuthBeta == << "oauth", "2023-09-22" >>

ContextBeta == << "context-1m", "2025-08-07" >>

EmptyBeta == << >>

DefaultBetas == << << "claude-code", "20250219" >>, OAuthBeta,
                   << "interleaved-thinking", "2025-05-14" >>,
                   << "fine-grained-tool-streaming", "2025-05-14" >> >>

NoBetas == [kind |-> "absent", items |-> << >>]

BetaFields ==
    { NoBetas, [kind |-> "string", items |-> << ContextBeta >>] }
    \cup { [kind |-> "array", items |-> l] :
             l \in {<< >>} \cup { << a >> : a \in {ContextBeta, OAuthBeta, EmptyBeta} }
                   \cup { << a, b >> : a \in {ContextBeta, OAuthBeta, EmptyBeta},
                                       b \in {ContextBeta, OAuthBeta, EmptyBeta} } }

ClientBetaHeaders == { << >>, << ContextBeta >>, << OldOAuthBeta >>, << OAuthBeta >>,
                       << ContextBeta, OAuthBeta >>, << ContextBeta, OldOAuthBeta >> }

NotSent == [sent |-> FALSE, err |-> "", tools |-> << >>, toolChoice |-> NoToolChoice,
            history |-> << >>, thinking |-> EmptyBody, hasBetas |-> FALSE,
            header |-> << >>]

NoResponse == [received |-> FALSE, kind |-> "", tool |-> 0,
               upstream |-> NoName, client |-> NoName]

isClaudeOAuthToken(apiKey) == apiKey = OAuthKey

hasToolPrefix(name) == name.n > 0

\* prefix + name
withToolPrefix(name) == [name EXCEPT !.n = @ + 1]

\* strings.TrimPrefix(name, prefix)
trimToolPrefix(name) == IF hasToolPrefix(name) THEN [name EXCEPT !.n = @ - 1] ELSE name

\* the name written for a custom tool
prefixedToolName_Always(name) == withToolPrefix(name)

prefixedToolName(name) ==
    IF name = NoName \/ hasToolPrefix(name) THEN name ELSE withToolPrefix(name)

applyClaudeToolPrefix(body, prefix) ==
    IF prefix = "" THEN body
    ELSE [body EXCEPT
            !.tools = [i \in 1 .. Len(body.tools) |->
                          IF body.tools[i].type # "" THEN body.tools[i]
                          ELSE [body.tools[i] EXCEPT !.name = prefixedToolName(@)]],
            !.toolChoice = IF body.toolChoice.type = "tool"
                           THEN [body.toolChoice EXCEPT !.name = prefixedToolName(@)]
                           ELSE body.toolChoice,
            !.history = [i \in 1 .. Len(body.history) |->
                            IF body.history[i].type # "tool_use" THEN body.history[i]
                            ELSE [body.history[i] EXCEPT !.name = prefixedToolName(@)]]]

\* one content part of a unary response
stripClaudeToolPrefixFromResponse(part, prefix) ==
    IF prefix = "" THEN part
    ELSE IF part.type # "tool_use" THEN part
    ELSE IF ~hasToolPrefix(part.name) THEN part
    ELSE [part EXCEPT !.name = trimToolPrefix(@)]

\* the content_block of one stream line
stripClaudeToolPrefixFromStreamLine(block, prefix) ==
    IF prefix = "" THEN block
    ELSE IF block.type # "tool_use" THEN block
    ELSE IF ~hasToolPrefix(block.name) THEN block
    ELSE [block EXCEPT !.name = trimToolPrefix(@)]

isNonEmptyBeta(b) == b # EmptyBeta

\* the non-empty entries of the betas field, and whether the field is left
extractAndRemoveBetas(betas) ==
    IF betas.kind = "absent" THEN [betas |-> << >>, hasBetas |-> FALSE]
    ELSE [betas |-> SelectSeq(betas.items, isNonEmptyBeta),
          hasBetas |-> FALSE]

\* strings.Contains(val, "oauth")
containsOAuth(header) ==
    \E i \in 1 .. Len(header) : \E j \in 1 .. Len(header[i]) : header[i][j] = "oauth"

RECURSIVE mergeBetas(_, _)
mergeBetas(base, extra) ==
    IF extra = << >> THEN base
    ELSE LET beta == Head(extra)
             seen == { base[i] : i \in 1 .. Len(base) }
         IN  IF beta # EmptyBeta /\ beta \notin seen
             THEN mergeBetas(Append(base, beta), Tail(extra))
             ELSE mergeBetas(base, Tail(extra))

\* the Anthropic-Beta header applyClaudeHeaders sets
anthropicBetaHeader(client, extraBetas) ==
    LET base == IF client = << >> THEN DefaultBetas
                ELSE IF ~containsOAuth(client) THEN Append(client, OAuthBeta)
                ELSE client
    IN  mergeBetas(base, extraBetas)

hasThinkingField(body) == body.ctype # "" \/ body.cbudget # Absent

disableThinkingIfToolChoiceForced_OnlyAny(body, toolChoice) ==
    IF toolChoice.type = "any"
    THEN [body EXCEPT !.ctype = "", !.cbudget = Absent]
    ELSE body

disableThinkingIfToolChoiceForced(body, toolChoice) ==
    IF toolChoice.type = "any" \/ toolChoice.type = "tool"
    THEN [body EXCEPT !.ctype = "", !.cbudget = Absent]
    ELSE body

\* ClaudeExecutor.Execute up to the upstream request; no payload rules are
\* configured and cloaking leaves these fields alone
claudeUpstreamRequest(apiKey, thinkingBody, suffix, model, tools, toolChoice, history, betas, clientBeta) ==
    LET applied == ApplyThinking(thinkingBody, suffix, model, "claude")
    IN  IF applied.err # "" THEN [NotSent EXCEPT !.err = applied.err]
        ELSE LET thinking == disableThinkingIfToolChoiceForced(applied.body, toolChoice)
                 extracted == extractAndRemoveBetas(betas)
                 body == [tools |-> tools, toolChoice |-> toolChoice, history |-> history]
                 upstream == IF isClaudeOAuthToken(apiKey)
                             THEN applyClaudeToolPrefix(body, claudeToolPrefix)
                             ELSE body
             IN  [sent |-> TRUE, err |-> "", tools |-> upstream.tools,
                  toolChoice |-> upstream.toolChoice, history |-> upstream.history,
                  thinking |-> thinking, hasBetas |-> extracted.hasBetas,
                  header |-> anthropicBetaHeader(clientBeta, extracted.betas)]

\* no request is going through the Claude executor
ClaudeIdle ==
    /\ ceApiKey = PlainKey
    /\ ceTools = << >>
    /\ ceToolChoice = NoToolChoice
    /\ ceHistory = << >>
    /\ ceBetas = NoBetas
    /\ ceClientBeta = << >>
    /\ ceSent = NotSent
    /\ ceResp = NoResponse

(***************************************************************************)
(* OAuth model-name mapping                                                *)
(***************************************************************************)
ModelMappingOriginalModelMetadataKey == "model_mapping_original_model"

\* strings.ToLower of the model names in use
toLower(name) == IF name = "Alias-Model" THEN "alias-model" ELSE name

EqualFold(a, b) == toLower(a) = toLower(b)

MappingChannels == {"claude", "codex"}

MappingEntries == [Name : {"upstream-model", "other-upstream", "alias-model", ""},
                   Alias : {"alias-model", "Alias-Model", ""}]

MappingLists == {<< >>} \cup { << e >> : e \in MappingEntries }
                        \cup { << e, f >> : e \in MappingEntries, f \in MappingEntries }

RequestedModels == {"alias-model", "Alias-Model", "upstream-model", ""}

MetadataKeys == {ModelMappingOriginalModelMetadataKey, "idempotency_key"}

NoMetadata == [k \in MetadataKeys |-> ""]

Metadatas == { NoMetadata, [NoMetadata EXCEPT !["idempotency_key"] = "k1"] }

MappingAuths == [Provider : {"claude", "codex", "gemini"},
                 auth_kind : {"", "oauth", "apikey"},
                 account : {"oauth", "api_key"}]

NotMapped == [returned |-> FALSE, model |-> "", metadata |-> NoMetadata]

\* the reverse map of one channel from its entries, from entry i on: the
\* first entry of an alias wins
RECURSIVE compileReverse(_, _, _)
compileReverse(entries, i, rev) ==
    IF i > Len(entries) THEN rev
    ELSE LET name == entries[i].Name
             alias == entries[i].Alias
             aliasKey == toLower(alias)
         IN  IF name = "" \/ alias = "" THEN compileReverse(entries, i + 1, rev)
             ELSE IF EqualFold(name, alias) THEN compileReverse(entries, i + 1, rev)
             ELSE IF aliasKey \in DOMAIN rev THEN compileReverse(entries, i + 1, rev)
             ELSE compileReverse(entries, i + 1,
                                 [k \in DOMAIN rev \cup {aliasKey} |->
                                     IF k = aliasKey THEN name ELSE rev[k]])

\* channel -> alias (lower) -> upstream model; channels without entries are
\* left out
compileModelNameMappingTable(mappings) ==
    LET revOf(c) == compileReverse(mappings[c], 1, [k \in {} |-> ""])
        kept == { c \in DOMAIN mappings : Len(mappings[c]) > 0 /\ DOMAIN revOf(c) # {} }
    IN  [c \in kept |-> revOf(c)]

OAuthModelMappingChannel(provider, authKind) ==
    IF provider = "gemini" THEN ""
    ELSE IF provider \in {"vertex", "claude", "codex"}
         THEN IF authKind = "apikey" THEN "" ELSE provider
    ELSE IF provider \in {"gemini-cli", "aistudio", "antigravity", "qwen", "iflow"}
         THEN provider
    ELSE ""

modelMappingChannel(auth) ==
    LET authKind == IF auth.auth_kind # "" THEN auth.auth_kind
                    ELSE IF auth.account = "api_key" THEN "apikey" ELSE ""
    IN  OAuthModelMappingChannel(auth.Provider, authKind)

\* mutant: the alias is looked up in every channel's table
resolveOAuthUpstreamModel_AnyChannel(table, auth, requestedModel) ==
    LET key == toLower(requestedModel)
        hits == { c \in DOMAIN table : key \in DOMAIN table[c] }
    IN  IF hits = {} THEN ""
        ELSE table[CHOOSE c \in hits : TRUE][key]

resolveOAuthUpstreamModel(table, auth, requestedModel) ==
    LET channel == modelMappingChannel(auth)
        key == toLower(requestedModel)
    IN  IF channel = "" THEN ""
        ELSE IF key = "" THEN ""
        ELSE IF channel \notin DOMAIN table THEN ""
        ELSE LET rev == table[channel]
                 original == IF key \in DOMAIN rev THEN rev[key] ELSE ""
             IN  IF original = "" \/ EqualFold(original, requestedModel) THEN ""
                 ELSE original

applyOAuthModelMapping(table, auth, requestedModel, metadata) ==
    LET upstreamModel == resolveOAuthUpstreamModel(table, auth, requestedModel)
    IN  IF upstreamModel = "" THEN [model |-> requestedModel, metadata |-> metadata]
        ELSE [model |-> upstreamModel,
              metadata |-> [metadata EXCEPT
                               ![ModelMappingOriginalModelMetadataKey] = upstreamModel]]

\* no model name is being mapped
MappingIdle ==
    /\ omAuth = [Provider |-> "gemini", auth_kind |-> "", account |-> "api_key"]
    /\ omMappings = [c \in MappingChannels |-> << >>]
    /\ omRequested = ""
    /\ omMetadata = NoMetadata
    /\ omOut = NotMapped

(***************************************************************************)
(* The user-ID cache of the Claude executor                                *)
(***************************************************************************)
\* time.Hour, in clock units
userIDTTL == 2

MaxClock == 3

MaxCalls == 3

UserIDCallers == {1, 2}

UserIDApiKeys == {"", "api-key-1"}

\* the zero userIDCacheEntry, which a lookup of a missing key yields
NoEntry == [value |-> 0, expire |-> 0]

ProcIdle == [pc |-> "idle", key |-> "", now |-> 0, newID |-> 0, call |-> 0]

\* entry.value != "" && entry.expire.After(now) && isValidUserID(entry.value);
\* every ID generateFakeUserID hands out is a valid one
entryValid_IgnoresExpiry(entry, at) == entry.value # 0

entryValid(entry, at) == entry.value # 0 /\ entry.expire > at

\* sync.Once: Do runs its function only while the Once is not done
onceRuns_Always(done) == TRUE

onceRuns(done) == ~done

onceDone(done) == TRUE

\* the map after purgeExpiredUserIDs with the time it read
purgeExpired(cache, at) ==
    [k \in DOMAIN cache |-> IF ~(cache[k].expire > at) THEN NoEntry ELSE cache[k]]

\* the hit path under the write lock
renewEntry(entry, at) == [entry EXCEPT !.expire = at + userIDTTL]

\* the miss path under the write lock
storeEntry_AlwaysNew(entry, at, newID) ==
    [value |-> newID, expire |-> at + userIDTTL]

storeEntry(entry, at, newID) ==
    [value |-> IF ~entryValid(entry, at) THEN newID ELSE entry.value,
     expire |-> at + userIDTTL]

\* the cache is empty and nobody is calling
UserIDIdle ==
    /\ ucNow = 0
    /\ userIDCache = [k \in UserIDApiKeys \ {""} |-> NoEntry]
    /\ ucNextID = 0
    /\ ucProc = [g \in UserIDCallers |-> ProcIdle]
    /\ ucCalls = << >>
    /\ userIDCacheCleanupOnce = FALSE
    /\ ucCleanups = 0
    /\ ucPurgeNow = -1

(***************************************************************************)
(* The signature cache                                                     *)
(***************************************************************************)
\* 3 * time.Hour, in clock units
SignatureCacheTTL == 2

MinValidSignatureLen == 50

MaxSigClock == 3

MaxSigOps == 3

MaxSessions == 2

SigCallers == {1, 2}

SkipValidator == "skip_thought_signature_validator"

\* the signatures a response may carry, with their lengths
Signatures == {"sig-A", "sig-B", "short"}

sigLen(signature) == IF signature = "short" THEN 10 ELSE 64

SigModels == {"claude-sonnet", "gemini-pro"}

GetModelGroup(modelName) ==
    IF modelName \in {"claude-sonnet", "claude-opus"} THEN "claude"
    ELSE IF modelName = "gemini-pro" THEN "gemini"
    ELSE modelName

\* no entry under the text hash
NoSigEntry == [Signature |-> "", Timestamp |-> -1]

\* signatureCache holds no session under the key
NoSession == 0

SigProcIdle == [pc |-> "idle", sc |-> NoSession, at |-> 0, signature |-> "", since |-> 0]

PurgeIdle == [pc |-> "idle", at |-> 0, sc |-> NoSession]

\* now.Sub(entry.Timestamp) > SignatureCacheTTL
sigExpired_Never(entry, at) == FALSE

sigExpired(entry, at) == at - entry.Timestamp > SignatureCacheTTL

\* what GetCachedSignature returns when it finds nothing
sigMiss(modelName) == IF GetModelGroup(modelName) = "gemini" THEN SkipValidator ELSE ""

\* the cache is empty and nobody is calling
SigIdle ==
    /\ sgNow = 0
    /\ sgModel = "claude-sonnet"
    /\ signatureCache = NoSession
    /\ sgSessions = << >>
    /\ sgProc = [g \in SigCallers |-> SigProcIdle]
    /\ sgOps = << >>
    /\ sgPurge = PurgeIdle
    /\ sessionCleanupOnce = FALSE

(***************************************************************************)
(* The error response body                                                 *)
(***************************************************************************)
StatusUnauthorized == 401

StatusForbidden == 403

StatusNotFound == 404

StatusTooManyRequests == 429

StatusInternalServerError == 500

\* the status codes an ErrorMessage may carry, 0 and -1 for an unset one
MsgStatusCodes == {-1, 0, 200, 400, 401, 402, 403, 404, 408, 429, 499, 500, 502, 503, 599}

\* a text is its content and the white space around it
Text(pre, core, post) == [pre |-> pre, core |-> core, post |-> post]

JSONCores == {"{\"error\":{\"message\":\"upstream\"}}", "null", "\"quoted\""}

PlainCores == {"boom", "{\"error\":", ""}

ErrTexts == { Text(pre, core, post) : pre \in BOOLEAN, core \in JSONCores \cup PlainCores,
                                      post \in BOOLEAN }

\* msg == nil, and an ErrorMessage whose Error is nil
NilMsg == [isNil |-> TRUE, StatusCode |-> 0, hasError |-> FALSE, Error |-> Text(FALSE, "", FALSE)]

ErrorMessages ==
    {NilMsg} \cup [isNil : {FALSE}, StatusCode : MsgStatusCodes, hasError : {TRUE}, Error : ErrTexts]
             \cup [isNil : {FALSE}, StatusCode : MsgStatusCodes, hasError : {FALSE},
                   Error : {Text(FALSE, "", FALSE)}]

NoBody == [written |-> FALSE]

NoCallYet == [status |-> 0, errText |-> Text(FALSE, "", FALSE)]

TrimSpace(text) == Text(FALSE, text.core, FALSE)

\* json.Valid of a text without surrounding white space
jsonValid(text) == text.core \in JSONCores

\* http.StatusText
StatusText(status) ==
    Text(FALSE,
         CASE status = 200 -> "OK"
           [] status = 400 -> "Bad Request"
           [] status = 401 -> "Unauthorized"
           [] status = 402 -> "Payment Required"
           [] status = 403 -> "Forbidden"
           [] status = 404 -> "Not Found"
           [] status = 408 -> "Request Timeout"
           [] status = 429 -> "Too Many Requests"
           [] status = 500 -> "Internal Server Error"
           [] status = 502 -> "Bad Gateway"
           [] status = 503 -> "Service Unavailable"
           [] OTHER -> "",
         FALSE)

\* the type and code for a status
errorTaxonomy_NoServerError(status) ==
    CASE status = StatusUnauthorized -> [type |-> "authentication_error", code |-> "invalid_api_key"]
      [] status = StatusForbidden -> [type |-> "permission_error", code |-> "insufficient_quota"]
      [] status = StatusTooManyRequests -> [type |-> "rate_limit_error", code |-> "rate_limit_exceeded"]
      [] status = StatusNotFound -> [type |-> "invalid_request_error", code |-> "model_not_found"]
      [] OTHER -> [type |-> "invalid_request_error", code |-> ""]

errorTaxonomy(status) ==
    CASE status = StatusUnauthorized -> [type |-> "authentication_error", code |-> "invalid_api_key"]
      [] status = StatusForbidden -> [type |-> "permission_error", code |-> "insufficient_quota"]
      [] status = StatusTooManyRequests -> [type |-> "rate_limit_error", code |-> "rate_limit_exceeded"]
      [] status = StatusNotFound -> [type |-> "invalid_request_error", code |-> "model_not_found"]
      [] OTHER -> IF status >= StatusInternalServerError
                  THEN [type |-> "server_error", code |-> "internal_server_error"]
                  ELSE [type |-> "invalid_request_error", code |-> ""]

BuildErrorResponseBody(status0, errText0) ==
    LET status == IF status0 <= 0 THEN StatusInternalServerError ELSE status0
        errText == IF TrimSpace(errText0).core = "" THEN StatusText(status) ELSE errText0
        trimmed == TrimSpace(errText)
    IN  IF trimmed.core # "" /\ jsonValid(trimmed)
        THEN [written |-> TRUE, raw |-> TRUE, text |-> trimmed,
              type |-> "", code |-> ""]
        ELSE [written |-> TRUE, raw |-> FALSE, text |-> errText,
              type |-> errorTaxonomy(status).type, code |-> errorTaxonomy(status).code]

\* the status and the text WriteErrorResponse hands to BuildErrorResponseBody
writeErrorArgs(msg) ==
    LET status == IF ~msg.isNil /\ msg.StatusCode > 0 THEN msg.StatusCode
                  ELSE StatusInternalServerError
        v == TrimSpace(msg.Error)
    IN  [status |-> status,
         errText |-> IF ~msg.isNil /\ msg.hasError /\ v.core # "" THEN v
                     ELSE StatusText(status)]

\* no error is being written
ErrorIdle ==
    /\ weMsg = NilMsg
    /\ weCall = NoCallYet
    /\ weBody = NoBody

(***************************************************************************)
(* The base-URL fallback of the Antigravity executor                       *)
(***************************************************************************)
antigravityBaseURLDaily == "https://daily-cloudcode-pa.googleapis.com"

antigravitySandboxBaseURLDaily == "https://daily-cloudcode-pa.sandbox.googleapis.com"

antigravityBaseURLProd == "https://cloudcode-pa.googleapis.com"

StatusOK == 200

StatusMultipleChoices == 300

\* a base_url value: blanks around a core that may end in a slash
URLText(pad, core, slash) == [pad |-> pad, core |-> core, slash |-> slash]

EmptyText == URLText(FALSE, "", FALSE)

\* base_url of auth.Attributes and of auth.Metadata
AttributeBaseURLs == { EmptyText, URLText(TRUE, "", FALSE),
                       URLText(TRUE, "https://a.example", TRUE) }

MetadataBaseURLs == { EmptyText, URLText(FALSE, "https://b.example", FALSE) }

FallbackAuths == [attr : AttributeBaseURLs, meta : MetadataBaseURLs]

FallbackOps == {"Execute", "executeClaudeNonStream", "ExecuteStream", "CountTokens"}

\* what one upstream request meets: httpClient.Do fails, or a response
\* arrives with a status and a body that can or cannot be read
DoError == [kind |-> "doError", status |-> 0, readErr |-> FALSE]

Outcomes ==
    { DoError }
    \cup [kind : {"response"},
          status : {StatusOK, StatusTooManyRequests, StatusNotFound, StatusInternalServerError},
          readErr : BOOLEAN]

NoFailureYet == [status |-> 0, err |-> ""]

NotReturned == [returned |-> FALSE, status |-> 0, err |-> ""]

\* strings.TrimSpace
trimURLSpace(v) == [v EXCEPT !.pad = FALSE]

\* strings.TrimSuffix(v, "/") as a string
trimURLSlash(v) == v.core

resolveCustomAntigravityBaseURL(auth) ==
    IF trimURLSpace(auth.attr) # EmptyText THEN trimURLSlash(trimURLSpace(auth.attr))
    ELSE IF trimURLSpace(auth.meta) # EmptyText THEN trimURLSlash(trimURLSpace(auth.meta))
    ELSE ""

antigravityBaseURLFallbackOrder(auth) ==
    IF resolveCustomAntigravityBaseURL(auth) # ""
    THEN << resolveCustomAntigravityBaseURL(auth) >>
    ELSE << antigravityBaseURLDaily, antigravitySandboxBaseURLDaily,
            antigravityBaseURLProd >>

isErrorStatus(status) == status < StatusOK \/ status >= StatusMultipleChoices

\* Execute and CountTokens read every body inside the loop, the Claude and
\* stream paths only the body of an error response
readsBody(op, status) ==
    op \in {"Execute", "CountTokens"} \/ isErrorStatus(status)

\* mutant: any error status moves on to the next base URL
retriesStatus_AnyError(status, more) == more

\* an error status moves on to the next base URL
retriesStatus(status, more) == status = StatusTooManyRequests /\ more

\* one iteration of the loop over baseURLs: what it records as the last
\* failure, and whether it continues or returns (and what)
fallbackStep(op, o, more, last) ==
    LET continue(l) == [last |-> l, result |-> NotReturned]
        return(l, status, err) ==
            [last |-> l, result |-> [returned |-> TRUE, status |-> status, err |-> err]]
        doFailed == [status |-> 0, err |-> "do"]
        readFailed == [status |-> 0, err |-> "read"]
        gotStatus == [status |-> o.status, err |-> ""]
    IN  IF o.kind = "doError"
        THEN IF more THEN continue(doFailed) ELSE return(doFailed, 0, "do")
        ELSE IF op \in {"Execute", "CountTokens"}
        THEN IF o.readErr THEN return(last, 0, "read")
             ELSE IF ~isErrorStatus(o.status) THEN return(last, 0, "")
             ELSE IF retriesStatus(o.status, more) THEN continue(gotStatus)
             ELSE return(gotStatus, o.status, "")
        ELSE IF ~isErrorStatus(o.status) THEN return(last, 0, "")
        ELSE IF o.readErr
        THEN IF more THEN continue(readFailed) ELSE return(readFailed, 0, "read")
        ELSE IF retriesStatus(o.status, more) THEN continue(gotStatus)
        ELSE return(gotStatus, o.status, "")

\* no call is inside the Antigravity executor
FallbackIdle ==
    /\ fbOp = "Execute"
    /\ fbAuth = [attr |-> EmptyText, meta |-> EmptyText]
    /\ fbBaseURLs = << >>
    /\ fbIdx = 0
    /\ fbRequests = << >>
    /\ fbLast = NoFailureYet
    /\ fbResult = NotReturned
    /\ fbpc = "idle"


(***************************************************************************)
(* A request from provider resolution to the model name sent upstream,     *)
(* with the OAuth model aliases of the configuration                       *)
(***************************************************************************)
\* the credentials: two OAuth channels and an API key
AliasAuths ==
    { [id |-> "claude-oauth", Provider |-> "claude", auth_kind |-> "oauth", account |-> "oauth"],
      [id |-> "codex-oauth", Provider |-> "codex", auth_kind |-> "oauth", account |-> "oauth"],
      [id |-> "claude-key", Provider |-> "claude", auth_kind |-> "", account |-> "api_key"] }

\* the models each credential serves before any alias is applied
baseModels(auth) ==
    IF auth.id = "claude-oauth" THEN << "upstream-model", "plain-model" >>
    ELSE IF auth.id = "codex-oauth" THEN << "upstream-model", "alias-model" >>
    ELSE << "upstream-model", "alias-model", "plain-model" >>

\* cfg.OAuthModelMappings: per channel nothing, a rename or a fork
AliasLists ==
    {<< >>} \cup { << [Name |-> "upstream-model", Alias |-> "alias-model", Fork |-> f] >> :
                     f \in BOOLEAN }

AliasConfigs == [MappingChannels -> AliasLists]

NoAliases == [c \in MappingChannels |-> << >>]

AliasRequests == {"alias-model", "upstream-model", "plain-model", "unknown-model"}

NotSelected == [id |-> "", Provider |-> "", auth_kind |-> "", account |-> ""]

NotExecuted == [model |-> "", metadata |-> NoMetadata]

\* applyOAuthModelMappings(cfg, provider, authKind, models) of the service:
\* a model named by an entry of the channel is registered under the alias,
\* next to its own name when the entry forks
RECURSIVE renameModels(_, _)
renameModels(models, entry) ==
    IF models = << >> THEN << >>
    ELSE LET m == Head(models)
             rest == renameModels(Tail(models), entry)
         IN  IF ~EqualFold(m, entry.Name) THEN << m >> \o rest
             ELSE IF entry.Fork THEN << m, entry.Alias >> \o rest
             ELSE << entry.Alias >> \o rest

applyOAuthModelMappings(mappings, provider, authKind, models) ==
    LET channel == OAuthModelMappingChannel(provider, authKind)
    IN  IF channel \notin DOMAIN mappings THEN models
        ELSE IF mappings[channel] = << >> THEN models
        ELSE renameModels(models, mappings[channel][1])

\* the model IDs registered for each credential (RegisterClient)
registeredModels(mappings) ==
    [a \in AliasAuths |->
        LET kind == IF a.auth_kind # "" THEN a.auth_kind
                    ELSE IF a.account = "api_key" THEN "apikey" ELSE ""
            models == applyOAuthModelMappings(mappings, a.Provider, kind, baseModels(a))
        IN  { models[i] : i \in 1 .. Len(models) }]

\* ClientSupportsModel
ClientSupportsModel(registry, auth, model) == model \in registry[auth]

\* util.GetProviderName: the providers with a client registered for the model
GetProviderName(registry, model) ==
    { a.Provider : a \in { b \in AliasAuths : ClientSupportsModel(registry, b, model) } }

\* getRequestDetails for a model name without a thinking suffix
getRequestDetails(registry, modelName) ==
    LET providers == GetProviderName(registry, modelName)
    IN  IF providers = {} THEN [providers |-> {}, err |-> "unknown provider"]
        ELSE [providers |-> providers, err |-> ""]

\* no request is being resolved
AliasIdle ==
    /\ alMappings = NoAliases
    /\ alRegistry = [a \in AliasAuths |-> {}]
    /\ alRequested = ""
    /\ alProviders = {}
    /\ alAuth = NotSelected
    /\ alOut = NotExecuted
    /\ alpc = "start"


(***************************************************************************)
(* The signature cache keyed by session, with a bounded number of entries   *)
(* for each session                                                         *)
(***************************************************************************)
\* MaxEntriesPerSession of the source is 100; the model scales it down
MaxEntriesPerSession == 4

MaxCacheClock == 3

CacheSessions == {"s1", "s2"}

CacheTexts == {"t1", "t2", "t3", "t4", "t5"}

\* the calls of CacheSignature: session s1 caches every text, session s2
\* one text, and four calls carry an input the function rejects
SessionCacheCalls ==
    [sessionID : {"s1"}, text : CacheTexts, signature : {"sig-A"}]
        \cup { [sessionID |-> "s2", text |-> "t1", signature |-> "sig-A"],
               [sessionID |-> "", text |-> "t1", signature |-> "sig-A"],
               [sessionID |-> "s1", text |-> "", signature |-> "sig-A"],
               [sessionID |-> "s1", text |-> "t1", signature |-> ""],
               [sessionID |-> "s1", text |-> "t1", signature |-> "short"] }

SessionLookups == { <<"s1", "t1">>, <<"s1", "t2">>, <<"s2", "t1">>, <<"", "t1">>, <<"s1", "">> }

\* the first 16 hex digits of the SHA-256 of the text; the texts of the
\* model have pairwise different hashes
hashText(text) == << "sha256", text >>

\* a session ID the map holds nothing for
NoSessionCache == [exists |-> FALSE, entries |-> << >>]

NoEviction == [kind |-> "none", expired |-> 0, oldest |-> 0]

\* len(signature) of the signatures of the model
cachedSigLen(signature) == IF signature = "" THEN 0 ELSE sigLen(signature)

\* the early returns of CacheSignature
rejectsSignature(sessionID, text, signature) ==
    \/ sessionID = "" \/ text = "" \/ signature = ""
    \/ cachedSigLen(signature) < MinValidSignatureLen

\* delete(entries, key) for each of the keys
dropKeys(entries, keys) == [k \in (DOMAIN entries) \ keys |-> entries[k]]

\* entries[key] = entry
putEntry(entries, key, entry) ==
    [k \in (DOMAIN entries) \cup {key} |-> IF k = key THEN entry ELSE entries[k]]

expiredKeys(entries, at) == { k \in DOMAIN entries : sigExpired(entries[k], at) }

atCapacity_Never(entries) == FALSE

\* len(sc.entries) >= MaxEntriesPerSession
atCapacity(entries) == Cardinality(DOMAIN entries) >= MaxEntriesPerSession

\* the first pass of the eviction: at capacity the expired entries go
evictExpired(entries, at) ==
    IF atCapacity(entries) THEN dropKeys(entries, expiredKeys(entries, at))
    ELSE entries

toRemove(n) == IF n \div 4 < 1 THEN 1 ELSE n \div 4

\* the first n keys of the entries sorted by timestamp, oldest first; the
\* sort is not stable and the map is ranged over in any order, so entries
\* of one timestamp come in any order
oldestSets(entries, n) ==
    { R \in SUBSET (DOMAIN entries) :
        /\ Cardinality(R) = n
        /\ \A r \in R, k \in (DOMAIN entries) \ R :
               entries[r].Timestamp <= entries[k].Timestamp }

\* the second pass: the sets of keys the eviction may remove from a
\* session that was at capacity and still is without its expired entries
oldestChoices(entries, live) ==
    IF atCapacity(entries) /\ atCapacity(live)
    THEN oldestSets(live, toRemove(Cardinality(DOMAIN live)))
    ELSE {{}}

\* purgeExpiredSessions on one session
purgeSession(session, at) ==
    LET kept == dropKeys(session.entries, expiredKeys(session.entries, at))
    IN  IF ~session.exists \/ DOMAIN kept = {} THEN NoSessionCache
        ELSE [exists |-> TRUE, entries |-> kept]

\* the session-keyed cache at rest
SessionCacheIdle ==
    /\ scNow = 0
    /\ scSessions = [s \in CacheSessions |-> NoSessionCache]
    /\ scLast = NoEviction


(***************************************************************************)
(* The signature cache keyed by model group and text, many keys at once     *)
(***************************************************************************)
GroupModels == {"claude-sonnet", "claude-opus", "gemini-pro"}

GroupTexts == {"t1", "t2"}

\* the model groups and texts a signature can be cached for
GroupPairs == { <<GetModelGroup(m), t>> : m \in GroupModels, t \in GroupTexts }

\* the calls of CacheSignature; the last three are ones it rejects
GroupCacheCalls ==
    [modelName : GroupModels, text : {"t1"}, signature : {"sig-A"}]
        \cup { [modelName |-> "claude-sonnet", text |-> "t1", signature |-> "sig-B"],
               [modelName |-> "claude-sonnet", text |-> "t2", signature |-> "sig-A"],
               [modelName |-> "claude-sonnet", text |-> "", signature |-> "sig-A"],
               [modelName |-> "claude-sonnet", text |-> "t1", signature |-> ""],
               [modelName |-> "claude-sonnet", text |-> "t1", signature |-> "short"] }

GroupLookups == (GroupModels \X {"t1"}) \cup { <<"claude-sonnet", "t2">>, <<"gemini-pro", "">> }

groupKey_TextOnly(modelName, text) == hashText(<< "", "#", text >>)

\* hashText(fmt.Sprintf("%s#%s", GetModelGroup(modelName), text)); no model
\* group of the model contains '#'
groupKey(modelName, text) == hashText(<< GetModelGroup(modelName), "#", text >>)

GroupKeys == { groupKey(m, t) : m \in GroupModels, t \in GroupTexts }

\* the characters of a key of the map: hex.EncodeToString
HexDigits == {"0", "1", "2", "3", "4", "5", "6", "7", "8", "9", "a", "b", "c", "d", "e", "f"}

\* strings.HasSuffix(kStr, "#"+sessionID) on a key of the map: the suffix
\* begins with '#', and a key ends in it only if '#' is one of its characters
keyHasSessionSuffix(key, sessionID) == "#" \in HexDigits

\* the empty session ID; a session ID that is a string s is written << s >>
NoSessionID == << "" >>

\* the IDs ClearSignatureCache is called with: none, a model group, a
\* session ID of the cache keyed by session, and the keys of the map, which
\* are what CacheSignature hands to getOrCreateSession as the session ID
ClearIDs == { NoSessionID, << "claude" >>, << "session-1" >> } \cup GroupKeys

\* no CacheSignature call is between getOrCreateSession and its store
NoCaller == [modelName |-> "", text |-> "", signature |-> "", orphaned |-> FALSE, cleared |-> FALSE]

\* the sweeper is not between its look at a session and the Delete
NoPending == << >>

\* the call in progress loses its session when the key is deleted, by the
\* sweeper or by a clear
orphanedBy(caller, deleted, byClear) ==
    IF caller # NoCaller /\ groupKey(caller.modelName, caller.text) \in deleted
    THEN [caller EXCEPT !.orphaned = TRUE, !.cleared = byClear \/ caller.cleared]
    ELSE caller

NoGroupCall == [kind |-> "none", model |-> "", text |-> "", ret |-> "", id |-> NoSessionID, at |-> 0]

\* the cache keyed by model group at rest
GroupCacheIdle ==
    /\ gcNow = 0
    /\ gcSessions = << >>
    /\ gcLatest = << >>
    /\ gcLast = NoGroupCall
    /\ gcCaller = NoCaller
    /\ gcPending = NoPending

AfterErrorIdle == FallbackIdle /\ AliasIdle /\ SessionCacheIdle /\ GroupCacheIdle

\* the later components at rest
AfterSigIdle == ErrorIdle /\ AfterErrorIdle

AfterUserIDIdle == SigIdle /\ AfterSigIdle

AfterMappingIdle == UserIDIdle /\ AfterUserIDIdle

AfterClaudeIdle == MappingIdle /\ AfterMappingIdle

LateIdle == ClaudeIdle /\ AfterClaudeIdle

\* a fresh RoundRobinSelector, no goroutine inside Pick
RRIdle ==
    /\ cursors = [p \in Priorities |-> 0]
    /\ gpc = [g \in Goroutines |-> "idle"]
    /\ gsel = [g \in Goroutines |-> NoSel]
    /\ rrLog = << >>

\* no thinking configuration is being validated
ThinkingIdle ==
    /\ thSupport = NilSupport
    /\ thProvider = "gemini"
    /\ thConfig = EmptyConfig
    /\ thResult = NoValidation
    /\ thAgain = NoValidation
    /\ thpc = "input"

\* no request body is being processed by the thinking engine
ApplyIdle ==
    /\ atModel = NilModel
    /\ atProvider = "claude"
    /\ atSuffix = ""
    /\ atBody = EmptyBody
    /\ atOut = NoOutput
    /\ atpc = "input"

\* the other components at rest
OthersIdle == RRIdle /\ ThinkingIdle /\ ApplyIdle /\ PayloadIdle /\ LateIdle

StreamAtStart ==
    /\ ctxDone = FALSE
    /\ calls = 0
    /\ fpc = "start"
    /\ cur = 0
    /\ sentPayload = FALSE
    /\ bootstrapRetries = 0
    /\ fpending = << >>
    /\ dataChan = "nil"
    /\ dataCloses = 0
    /\ errChan = << >>
    /\ errCloses = 0
    /\ errSends = 0
    /\ lateWrite = FALSE
    /\ received = << >>
    /\ consumerStopped = FALSE
    /\ epc = [a \in Attempts |-> "unborn"]
    /\ epend = [a \in Attempts |-> NoChunk]
    /\ produced = [a \in Attempts |-> << >>]
    /\ outCloses = [a \in Attempts |-> 0]

InitStream ==
    /\ cfg \in Cfgs
    /\ StreamAtStart
    /\ ManagerIdle
    /\ OthersIdle

\* no stream is running while the manager and the selector are exercised
StreamIdle ==
    /\ cfg = NilCfg
    /\ StreamAtStart
    /\ OthersIdle


(***************************************************************************)
(* The facade                                                              *)
(***************************************************************************)
\* getRequestDetails fails: no provider serves the model
FacadeUnknownProvider ==
    /\ fpc = "start"
    /\ fpc' = "done"
    /\ SendErr(400)
    /\ errCloses' = errCloses + 1
    /\ UNCHANGED << cfg, ctxDone, calls, cur, sentPayload, bootstrapRetries,
                    fpending, dataChan, dataCloses, received, consumerStopped, epc, epend, produced, outCloses >>
    /\ UNCHANGED << mgrVars, otherVars >>

\* the first AuthManager.ExecuteStream returns an error
FacadeStartFails(err) ==
    /\ fpc = "start"
    /\ calls' = calls + 1
    /\ fpc' = "done"
    /\ SendErr(err)
    /\ errCloses' = errCloses + 1
    /\ UNCHANGED << cfg, ctxDone, cur, sentPayload, bootstrapRetries,
                    fpending, dataChan, dataCloses, received, consumerStopped, epc, epend, produced, outCloses >>
    /\ UNCHANGED << mgrVars, otherVars >>

\* the first AuthManager.ExecuteStream returns a channel; the forwarding
\* goroutine is started and both channels are handed to the caller
FacadeStart ==
    /\ fpc = "start"
    /\ calls' = calls + 1
    /\ cur' = calls + 1
    /\ epc' = [epc EXCEPT ![calls + 1] = "read"]
    /\ dataChan' = "open"
    /\ sentPayload' = FALSE
    /\ bootstrapRetries' = 0
    /\ fpc' = "recv"
    /\ UNCHANGED << cfg, ctxDone, fpending, dataCloses, errChan, errCloses,
                    errSends, lateWrite, received, consumerStopped, epend, produced, outCloses >>
    /\ UNCHANGED << mgrVars, otherVars >>

\* select { case <-ctx.Done(): return }
FacadeCtxDone ==
    /\ fpc = "recv"
    /\ ctxDone
    /\ FacadeReturn
    /\ UNCHANGED << cfg, ctxDone, calls, cur, sentPayload, bootstrapRetries,
                    fpending, errChan, errSends, lateWrite, received,
                    consumerStopped, epc, epend, produced,
                    outCloses >>
    /\ UNCHANGED << mgrVars, otherVars >>

\* chunk, ok = <-chunks with ok = false
FacadeRecvClosed ==
    /\ fpc = "recv"
    /\ epc[cur] = "closed"
    /\ FacadeReturn
    /\ UNCHANGED << cfg, ctxDone, calls, cur, sentPayload, bootstrapRetries,
                    fpending, errChan, errSends, lateWrite, received,
                    consumerStopped, epc, epend, produced,
                    outCloses >>
    /\ UNCHANGED << mgrVars, otherVars >>

\* chunk, ok = <-chunks delivers a payload chunk
FacadeRecvPayload ==
    /\ fpc = "recv"
    /\ epc[cur] = "send"
    /\ epend[cur].Err = Nil
    /\ epc' = [epc EXCEPT ![cur] = "read"]
    /\ epend' = [epend EXCEPT ![cur] = NoChunk]
    /\ IF forwardable(epend[cur].Payload)
       THEN /\ sentPayload' = TRUE
            /\ fpending' = cloneBytes(epend[cur].Payload)
            /\ fpc' = "sendData"
       ELSE UNCHANGED << sentPayload, fpending, fpc >>
    /\ UNCHANGED << cfg, ctxDone, calls, cur, bootstrapRetries, dataChan,
                    dataCloses, errChan, errCloses, errSends, lateWrite,
                    received, consumerStopped, produced,
                    outCloses >>
    /\ UNCHANGED << mgrVars, otherVars >>

\* chunk.Err != nil, bootstrap retry taken and the re-invocation returns a
\* channel: `chunks = retryChunks; continue outer`
FacadeRetryOk ==
    /\ fpc = "recv"
    /\ epc[cur] = "send"
    /\ epend[cur].Err # Nil
    /\ mayBootstrapRetry(sentPayload, bootstrapRetries,
                         StreamingBootstrapRetries(cfg), epend[cur].Err)
    /\ calls + 1 \in Attempts
    /\ bootstrapRetries' = bootstrapRetries + 1
    /\ calls' = calls + 1
    /\ cur' = calls + 1
    /\ epc' = [epc EXCEPT ![cur] = "closed", ![calls + 1] = "read"]
    /\ outCloses' = [outCloses EXCEPT ![cur] = @ + 1]
    /\ epend' = [epend EXCEPT ![cur] = NoChunk]
    /\ UNCHANGED << cfg, ctxDone, fpc, sentPayload, fpending, dataChan,
                    dataCloses, errChan, errCloses, errSends, lateWrite,
                    received, consumerStopped, produced >>
    /\ UNCHANGED << mgrVars, otherVars >>

\* chunk.Err != nil, bootstrap retry taken and the re-invocation fails:
\* `streamErr = retryErr`, which is sent on errChan
FacadeRetryFails(retryErr) ==
    /\ fpc = "recv"
    /\ epc[cur] = "send"
    /\ epend[cur].Err # Nil
    /\ mayBootstrapRetry(sentPayload, bootstrapRetries,
                         StreamingBootstrapRetries(cfg), epend[cur].Err)
    /\ calls + 1 \in Attempts
    /\ bootstrapRetries' = bootstrapRetries + 1
    /\ calls' = calls + 1
    /\ epc' = [epc EXCEPT ![cur] = "closed"]
    /\ outCloses' = [outCloses EXCEPT ![cur] = @ + 1]
    /\ epend' = [epend EXCEPT ![cur] = NoChunk]
    /\ SendErr(retryErr)
    /\ FacadeReturn
    /\ UNCHANGED << cfg, ctxDone, cur, sentPayload, fpending, received,
                    consumerStopped, produced >>
    /\ UNCHANGED << mgrVars, otherVars >>

\* chunk.Err != nil and no retry: the error is sent on errChan
FacadeSurfaceError ==
    /\ fpc = "recv"
    /\ epc[cur] = "send"
    /\ epend[cur].Err # Nil
    /\ ~mayBootstrapRetry(sentPayload, bootstrapRetries,
                          StreamingBootstrapRetries(cfg), epend[cur].Err)
    /\ epc' = [epc EXCEPT ![cur] = "closed"]
    /\ outCloses' = [outCloses EXCEPT ![cur] = @ + 1]
    /\ epend' = [epend EXCEPT ![cur] = NoChunk]
    /\ SendErr(epend[cur].Err)
    /\ FacadeReturn
    /\ UNCHANGED << cfg, ctxDone, calls, cur, sentPayload, bootstrapRetries,
                    fpending, received, consumerStopped,
                    produced >>
    /\ UNCHANGED << mgrVars, otherVars >>

\* dataChan <- cloneBytes(chunk.Payload): an unbuffered send, which completes
\* only together with a receive of the client
FacadeSendData ==
    /\ fpc = "sendData"
    /\ ~consumerStopped
    /\ received' = Append(received, fpending)
    /\ lateWrite' = (lateWrite \/ dataCloses > 0)
    /\ fpending' = << >>
    /\ fpc' = "recv"
    /\ UNCHANGED << cfg, ctxDone, calls, cur, sentPayload, bootstrapRetries,
                    dataChan, dataCloses, errChan, errCloses, errSends,
                    consumerStopped, epc, epend, produced,
                    outCloses >>
    /\ UNCHANGED << mgrVars, otherVars >>

(***************************************************************************)
(* The stream-reader goroutine of an executor                              *)
(***************************************************************************)
\* scanner.Scan() yields a line whose translation is handed to `out <-`
ExecProduce(a, payload) ==
    /\ epc[a] = "read"
    /\ Len(produced[a]) < MaxChunks
    /\ epc' = [epc EXCEPT ![a] = "send"]
    /\ epend' = [epend EXCEPT ![a] = StreamChunk(payload, Nil)]
    /\ produced' = [produced EXCEPT ![a] = Append(@, StreamChunk(payload, Nil))]
    /\ lateWrite' = (lateWrite \/ outCloses[a] > 0)
    /\ UNCHANGED << cfg, ctxDone, calls, fpc, cur, sentPayload,
                    bootstrapRetries, fpending, dataChan, dataCloses, errChan,
                    errCloses, errSends, received, consumerStopped, outCloses >>
    /\ UNCHANGED << mgrVars, otherVars >>

\* the scan loop ends with scanner.Err() != nil: out <- StreamChunk{Err: ...}
ExecScanErr(a, err) ==
    /\ epc[a] = "read"
    /\ epc' = [epc EXCEPT ![a] = "send"]
    /\ epend' = [epend EXCEPT ![a] = StreamChunk(<< >>, err)]
    /\ produced' = [produced EXCEPT ![a] = Append(@, StreamChunk(<< >>, err))]
    /\ lateWrite' = (lateWrite \/ outCloses[a] > 0)
    /\ UNCHANGED << cfg, ctxDone, calls, fpc, cur, sentPayload,
                    bootstrapRetries, fpending, dataChan, dataCloses, errChan,
                    errCloses, errSends, received, consumerStopped, outCloses >>
    /\ UNCHANGED << mgrVars, otherVars >>

\* the scan loop ends at end of body without error and the goroutine
\* returns: defer close(out)
ExecEOF(a) ==
    /\ epc[a] = "read"
    /\ epc' = [epc EXCEPT ![a] = "closed"]
    /\ outCloses' = [outCloses EXCEPT ![a] = @ + 1]
    /\ UNCHANGED << cfg, ctxDone, calls, fpc, cur, sentPayload,
                    bootstrapRetries, fpending, dataChan, dataCloses, errChan,
                    errCloses, errSends, lateWrite, received, consumerStopped, epend, produced >>
    /\ UNCHANGED << mgrVars, otherVars >>

(***************************************************************************)
(* The environment: the client and the request context                     *)
(***************************************************************************)
\* the inbound request context is cancelled while the request is served
CancelCtx ==
    /\ fpc # "done"
    /\ ~ctxDone
    /\ ctxDone' = TRUE
    /\ UNCHANGED << cfg, calls, fpc, cur, sentPayload, bootstrapRetries,
                    fpending, dataChan, dataCloses, errChan, errCloses,
                    errSends, lateWrite, received, consumerStopped, epc, epend, produced, outCloses >>
    /\ UNCHANGED << mgrVars, otherVars >>

\* the client stops receiving from both channels before the stream ended
ConsumerStop ==
    /\ fpc # "done"
    /\ ~consumerStopped
    /\ consumerStopped' = TRUE
    /\ UNCHANGED << cfg, ctxDone, calls, fpc, cur, sentPayload,
                    bootstrapRetries, fpending, dataChan, dataCloses, errChan,
                    errCloses, errSends, lateWrite, received, epc, epend, produced, outCloses >>
    /\ UNCHANGED << mgrVars, otherVars >>

FacadeStep ==
    \/ FacadeUnknownProvider
    \/ \E err \in ErrStatuses : FacadeStartFails(err)
    \/ FacadeStart
    \/ FacadeCtxDone
    \/ FacadeRecvClosed
    \/ FacadeRecvPayload
    \/ FacadeRetryOk
    \/ \E err \in ErrStatuses : FacadeRetryFails(err)
    \/ FacadeSurfaceError
    \/ FacadeSendData

ExecStep(a) ==
    \/ \E p \in Payloads : ExecProduce(a, p)
    \/ \E err \in ErrStatuses : ExecScanErr(a, err)
    \/ ExecEOF(a)

NextStream ==
    \/ FacadeStep
    \/ \E a \in Attempts : ExecStep(a)
    \/ CancelCtx
    \/ ConsumerStop

Init == InitStream

Next == NextStream

Spec == Init /\ [][Next]_vars

\* the Go scheduler runs every goroutine that can take a step
FairSpec ==
    /\ Spec
    /\ WF_vars(FacadeStep)
    /\ \A a \in Attempts : WF_vars(ExecStep(a))

(***************************************************************************)
(* The auth manager: Execute                                               *)
(***************************************************************************)
\* the record of one executor invocation; cooling, alt and skipped describe
\* the moment of the invocation
Attempt(a, providers) ==
    [auth    |-> a,
     status  |-> Pending,
     cooling |-> modelState[a].QuotaExceeded /\ modelState[a].NextRetryAfter > now,
     alt     |-> \E b \in AuthIDs \ {a} :
                    /\ providerOf(b) \in providers
                    /\ modelState[b].NextRetryAfter <= now,
     skipped |-> { b \in AuthIDs :
                    /\ providerOf(b) \in providers
                    /\ modelState[b].QuotaExceeded
                    /\ modelState[b].NextRetryAfter > now }]

ErrorResult(status) == [kind |-> "error", status |-> status]

\* the candidates of a request: the auths of its providers that are not in
\* a future cooldown
candidatesFor(providers) ==
    { a \in AuthIDs : providerOf(a) \in providers
                      /\ ~isAuthBlocked(modelState[a], now) }

\* Execute is called: candidates are collected, the selector picks and the
\* executor is invoked; without a candidate NoCandidates (429) is returned
ExecuteStart(providers, maxAttempts) ==
    /\ mpc \in {"idle", "done"}
    /\ requests < MaxRequests
    /\ requests' = requests + 1
    /\ reqProviders' = providers
    /\ reqMaxAttempts' = maxAttempts
    /\ LET cands == candidatesFor(providers)
       IN  /\ working' = cands
           /\ candCount' = Cardinality(cands)
           /\ \E order \in Orders(cands) :
                LET pick == FillFirstPick(order, priority, modelState, now)
                IN  IF pick = NoAuth
                    THEN /\ mpc' = "done"
                         /\ result' = ErrorResult(429)
                         /\ attemptLog' = << >>
                    ELSE /\ mpc' = "invoking"
                         /\ result' = NoResult
                         /\ attemptLog' = << Attempt(pick, providers) >>
    /\ UNCHANGED << now, priority, modelState, pickLog >>
    /\ UNCHANGED << streamVars, otherVars >>

\* the executor returns: success ends the request; a non-retryable error is
\* returned at once; a retryable one updates the (auth, model) state, drops
\* the auth from the working set and re-selects within the attempt limit
ExecutorReturns(outcome) ==
    /\ mpc = "invoking"
    /\ LET n == Len(attemptLog)
           a == attemptLog[n].auth
           logged == [attemptLog EXCEPT ![n].status = outcome]
       IN  IF outcome = 200
           THEN /\ modelState' = [modelState EXCEPT ![a] = FreshModelState]
                /\ attemptLog' = logged
                /\ result' = [kind |-> "ok", status |-> 200]
                /\ mpc' = "done"
                /\ UNCHANGED working
           ELSE IF ~Retryable(outcome)
           THEN /\ attemptLog' = logged
                /\ result' = ErrorResult(outcome)
                /\ mpc' = "done"
                /\ UNCHANGED << modelState, working >>
           ELSE LET states == [modelState EXCEPT
                                  ![a] = stateAfterFailure(@, outcome, now)]
                    rest == dropFromWorking(working, a)
                IN  /\ modelState' = states
                    /\ working' = rest
                    /\ \E order \in Orders(rest) :
                         LET pick == IF n >= attemptLimit(candCount, reqMaxAttempts)
                                     THEN NoAuth
                                     ELSE FillFirstPick(order, priority, states, now)
                         IN  IF pick = NoAuth
                             THEN /\ attemptLog' = logged
                                  /\ result' = ErrorResult(outcome)
                                  /\ mpc' = "done"
                             ELSE /\ attemptLog' =
                                        Append(logged,
                                               [Attempt(pick, reqProviders) EXCEPT
                                                  !.cooling = states[pick].QuotaExceeded
                                                              /\ states[pick].NextRetryAfter > now,
                                                  !.skipped = {}])
                                  /\ result' = NoResult
                                  /\ mpc' = "invoking"
    /\ UNCHANGED << now, priority, reqProviders, reqMaxAttempts, candCount,
                    pickLog, requests >>
    /\ UNCHANGED << streamVars, otherVars >>

\* time passes
Tick ==
    /\ now < MaxTime
    /\ now' = now + 1
    /\ UNCHANGED << priority, modelState, mpc, reqProviders, reqMaxAttempts,
                    working, candCount, attemptLog, result, pickLog, requests >>
    /\ UNCHANGED << streamVars, otherVars >>

InitManager ==
    /\ StreamIdle
    /\ priority \in [AuthIDs -> Priorities]
    /\ ManagerAtStart

NextManager ==
    \/ \E providers \in ProviderSets, maxAttempts \in 0 .. 2 :
          ExecuteStart(providers, maxAttempts)
    \/ \E outcome \in ExecOutcomes : ExecutorReturns(outcome)
    \/ Tick

SpecManager == InitManager /\ [][NextManager]_vars

(***************************************************************************)
(* The selector called directly, with cooldowns marked and cleared         *)
(***************************************************************************)
\* selector.Pick(ctx, provider, model, opts, auths) on the full auth list
SelectorPick(order) ==
    /\ LET entry == [result  |-> FillFirstPick(order, priority, modelState, now),
                     blocked |-> { a \in AuthIDs :
                                     modelState[a].NextRetryAfter > now }]
       IN  pickLog' = IF Len(pickLog) < MaxPicks
                      THEN Append(pickLog, entry)
                      ELSE Append(Tail(pickLog), entry)
    /\ UNCHANGED << now, priority, modelState, mpc, reqProviders,
                    reqMaxAttempts, working, candCount, attemptLog, result,
                    requests >>
    /\ UNCHANGED << streamVars, otherVars >>

\* an (auth, model) pair is marked quota-exceeded and cooling down
MarkCooling(a) ==
    /\ ~modelState[a].Unavailable
    /\ modelState' = [modelState EXCEPT
                        ![a] = [@ EXCEPT !.Unavailable = TRUE,
                                         !.QuotaExceeded = TRUE,
                                         !.NextRetryAfter = now + QuotaCooldown]]
    /\ UNCHANGED << now, priority, mpc, reqProviders, reqMaxAttempts, working,
                    candCount, attemptLog, result, pickLog, requests >>
    /\ UNCHANGED << streamVars, otherVars >>

\* the cooldown of an (auth, model) pair is cleared
ClearCooldown(a) ==
    /\ modelState[a].Unavailable
    /\ modelState' = [modelState EXCEPT ![a] = FreshModelState]
    /\ UNCHANGED << now, priority, mpc, reqProviders, reqMaxAttempts, working,
                    candCount, attemptLog, result, pickLog, requests >>
    /\ UNCHANGED << streamVars, otherVars >>

InitSelector ==
    /\ StreamIdle
    /\ priority \in [AuthIDs -> Priorities]
    /\ ManagerAtStart

NextSelector ==
    \/ \E order \in Orders(AuthIDs) : SelectorPick(order)
    \/ \E a \in AuthIDs : MarkCooling(a)
    \/ \E a \in AuthIDs : ClearCooldown(a)
    \/ Tick

SpecSelector == InitSelector /\ [][NextSelector]_vars

(***************************************************************************)
(* RoundRobinSelector shared by concurrent goroutines                      *)
(***************************************************************************)
\* mutant: every non-cooling candidate is eligible, whatever its priority
roundRobinBucket_AllPriorities(cands, prio, states, t) ==
    LET Usable(a) == ~isAuthBlocked(states[a], t)
    IN  SortByID(SelectSeq(cands, Usable))

\* mutant: the bucket is cycled in the order of the candidate slice
roundRobinBucket_Unsorted(cands, prio, states, t) ==
    availableTopBucket(cands, prio, states, t)

\* the sorted candidate list the round-robin counter indexes: the
\* non-cooling candidates of the highest usable priority bucket, by ID
roundRobinBucket(cands, prio, states, t) ==
    SortByID(availableTopBucket(cands, prio, states, t))

\* mutant: the counter is used as the index without the modulo
roundRobinIndex_NoModulo(counter, size) == counter

\* candidates[counter mod |bucket|]
roundRobinIndex(counter, size) == counter % size

\* the element of the bucket at a zero-based index, nil when out of range
bucketAt(bucket, i) ==
    IF i + 1 \in DOMAIN bucket THEN bucket[i + 1] ELSE NoAuth

\* RoundRobinSelector.Pick, first half: the bucket is computed from the
\* slice and the bucket's counter is fetched and incremented
RRPickEnter(g, order) ==
    /\ gpc[g] = "idle"
    /\ LET bucket == roundRobinBucket(order, priority, modelState, now)
           cooling == { a \in AuthIDs : isAuthBlocked(modelState[a], now) }
       IN  IF bucket = << >>
           THEN /\ gsel' = [gsel EXCEPT ![g] =
                              [bucket |-> << >>, idx |-> 0, blocked |-> cooling]]
                /\ UNCHANGED cursors
           ELSE LET key == priority[bucket[1]]
                IN  /\ cursors[key] < MaxCursor
                    /\ gsel' = [gsel EXCEPT ![g] =
                                  [bucket |-> bucket, idx |-> cursors[key],
                                   blocked |-> cooling]]
                    /\ cursors' = [cursors EXCEPT ![key] = @ + 1]
    /\ gpc' = [gpc EXCEPT ![g] = "inPick"]
    /\ UNCHANGED rrLog
    /\ UNCHANGED << mgrVars, streamVars, thVars, atVars, plVars, lateVars >>

\* RoundRobinSelector.Pick, second half: the candidate at counter mod
\* |bucket| is returned, or an error when no candidate is usable
RRPickReturn(g) ==
    /\ gpc[g] = "inPick"
    /\ LET sel == gsel[g]
           picked == IF sel.bucket = << >> THEN NoAuth
                     ELSE bucketAt(sel.bucket,
                                   roundRobinIndex(sel.idx, Len(sel.bucket)))
           entry == [idx |-> sel.idx, blocked |-> sel.blocked,
                     result |-> picked, err |-> (picked = NoAuth)]
       IN  rrLog' = IF Len(rrLog) < MaxPicks
                    THEN Append(rrLog, entry)
                    ELSE Append(Tail(rrLog), entry)
    /\ gpc' = [gpc EXCEPT ![g] = "idle"]
    /\ gsel' = [gsel EXCEPT ![g] = NoSel]
    /\ UNCHANGED cursors
    /\ UNCHANGED << mgrVars, streamVars, thVars, atVars, plVars, lateVars >>

InitRoundRobin ==
    /\ StreamIdle
    /\ priority \in [AuthIDs -> Priorities]
    /\ ManagerAtStart

NextRoundRobin ==
    \/ \E g \in Goroutines, order \in Orders(AuthIDs) : RRPickEnter(g, order)
    \/ \E g \in Goroutines : RRPickReturn(g)
    \/ \E a \in AuthIDs : MarkCooling(a)

SpecRoundRobin == InitRoundRobin /\ [][NextRoundRobin]_vars

(***************************************************************************)
(* ValidateConfig applied to a configuration and to its own result         *)
(***************************************************************************)
\* ValidateConfig(config, modelInfo, provider)
Validate ==
    /\ thpc = "input"
    /\ thResult' = ValidateConfig(thConfig, thSupport, thProvider)
    /\ thpc' = "validated"
    /\ UNCHANGED << thSupport, thProvider, thConfig, thAgain >>
    /\ UNCHANGED << streamVars, mgrVars, rrVars, atVars, plVars, lateVars >>

\* ValidateConfig(*validated, modelInfo, provider) on the returned config
Revalidate ==
    /\ thpc = "validated"
    /\ thResult.ok
    /\ thAgain' = ValidateConfig(thResult.cfg, thSupport, thProvider)
    /\ thpc' = "revalidated"
    /\ UNCHANGED << thSupport, thProvider, thConfig, thResult >>
    /\ UNCHANGED << streamVars, mgrVars, rrVars, atVars, plVars, lateVars >>

InitValidate ==
    /\ cfg = NilCfg
    /\ StreamAtStart
    /\ ManagerIdle
    /\ RRIdle
    /\ ApplyIdle
    /\ PayloadIdle
    /\ LateIdle
    /\ thSupport \in ModelSupports
    /\ thProvider \in ThinkingProviders
    /\ thConfig \in ThinkingConfigs
    /\ thResult = NoValidation
    /\ thAgain = NoValidation
    /\ thpc = "input"

NextValidate == Validate \/ Revalidate

SpecValidate == InitValidate /\ [][NextValidate]_vars

(***************************************************************************)
(* ApplyThinking on a request body, and the Antigravity thinking           *)
(* normalization of a Claude model's payload                               *)
(***************************************************************************)
\* thinking.ApplyThinking(body, model, provider)
ApplyThinkingCall ==
    /\ atpc = "input"
    /\ atOut' = ApplyThinking(atBody, atSuffix, atModel, atProvider)
    /\ atpc' = "applied"
    /\ UNCHANGED << atModel, atProvider, atSuffix, atBody >>
    /\ UNCHANGED << streamVars, mgrVars, rrVars, thVars, plVars, lateVars >>

\* normalizeAntigravityThinking(req.Model, translated, isClaude)
NormalizeAntigravityCall ==
    /\ atpc = "input"
    /\ atOut' = [body |-> normalizeAntigravityThinking(atModel, atBody,
                                                        atModel.isClaude),
                 err |-> ""]
    /\ atpc' = "normalized"
    /\ UNCHANGED << atModel, atProvider, atSuffix, atBody >>
    /\ UNCHANGED << streamVars, mgrVars, rrVars, thVars, plVars, lateVars >>

InitApplyThinking ==
    /\ cfg = NilCfg
    /\ StreamAtStart
    /\ ManagerIdle
    /\ RRIdle
    /\ ThinkingIdle
    /\ PayloadIdle
    /\ LateIdle
    /\ atModel \in ApplyModels
    /\ atProvider \in {"claude", "antigravity"}
    /\ atProvider = "claude" => atModel.Thinking.Levels = << >>
    /\ atSuffix \in RawSuffixes
    /\ atBody \in BodiesOf(atProvider)
    /\ atOut = NoOutput
    /\ atpc = "input"

NextApplyThinking == ApplyThinkingCall

SpecApplyThinking == InitApplyThinking /\ [][NextApplyThinking]_vars

\* a registered Claude model served through Antigravity, its payload
\* carrying the thinking configuration of the request
InitAntigravityClaude ==
    /\ cfg = NilCfg
    /\ StreamAtStart
    /\ ManagerIdle
    /\ RRIdle
    /\ ThinkingIdle
    /\ PayloadIdle
    /\ LateIdle
    /\ atModel \in { m \in ApplyModels : ~m.isNil /\ ~m.UserDefined /\ m.isClaude
                                          /\ m.Thinking.Levels = << >> }
    /\ atProvider = "antigravity"
    /\ atSuffix = ""
    /\ atBody \in { b \in AntigravityBodies : b.tlevel = "" }
    /\ atOut = NoOutput
    /\ atpc = "input"

NextAntigravityClaude == NormalizeAntigravityCall \/ ApplyThinkingCall

SpecAntigravityClaude == InitAntigravityClaude /\ [][NextAntigravityClaude]_vars

\* the executor applies the payload rules of the configuration to the
\* translated payload of a request
ApplyPayloadConfig ==
    /\ ~plOut.returned
    /\ plOut' = [returned |-> TRUE,
                 bytes |-> applyPayloadConfigWithRoot(plRules, RequestModel, RequestProtocol,
                                                      plPayload, plOriginal)]
    /\ UNCHANGED << plRules, plPayload, plOriginal >>
    /\ UNCHANGED << streamVars, mgrVars, rrVars, thVars, atVars, lateVars >>

InitPayload ==
    /\ cfg = NilCfg
    /\ StreamAtStart
    /\ ManagerIdle
    /\ RRIdle
    /\ ThinkingIdle
    /\ ApplyIdle
    /\ LateIdle
    /\ plRules \in [Default : PlainRuleLists, DefaultRaw : RawRuleLists,
                    Override : PlainRuleLists, OverrideRaw : RawRuleLists]
    /\ plPayload \in { Bytes(d) : d \in PayloadDocs }
    /\ plOriginal \in {EmptyBytes} \cup { Bytes(d) : d \in PayloadDocs }
    /\ plOut = NotApplied

NextPayload == ApplyPayloadConfig

SpecPayload == InitPayload /\ [][NextPayload]_vars

\* ClaudeExecutor.Execute / ExecuteStream build and send the upstream request
ClaudeExecuteSend ==
    /\ ~ceSent.sent /\ ceSent.err = ""
    /\ ceSent' = claudeUpstreamRequest(ceApiKey, atBody, atSuffix, atModel, ceTools,
                                       ceToolChoice, ceHistory, ceBetas, ceClientBeta)
    /\ UNCHANGED << ceApiKey, ceTools, ceToolChoice, ceHistory, ceBetas, ceClientBeta,
                    ceResp >>
    /\ UNCHANGED exceptClaude

\* the upstream answers with a tool_use block naming one of the tools it was
\* given, in a unary response or in a stream line, and the executor hands
\* it to the client
ClaudeReceive ==
    /\ ceSent.sent
    /\ ~ceResp.received
    /\ \E i \in 1 .. Len(ceSent.tools), kind \in {"unary", "stream"} :
        /\ ceSent.tools[i].name # NoName
        /\ LET part == [type |-> "tool_use", name |-> ceSent.tools[i].name]
               out == IF ~isClaudeOAuthToken(ceApiKey) THEN part
                      ELSE IF kind = "unary"
                           THEN stripClaudeToolPrefixFromResponse(part, claudeToolPrefix)
                      ELSE stripClaudeToolPrefixFromStreamLine(part, claudeToolPrefix)
           IN  ceResp' = [received |-> TRUE, kind |-> kind, tool |-> i,
                          upstream |-> part.name, client |-> out.name]
    /\ UNCHANGED << ceApiKey, ceTools, ceToolChoice, ceHistory, ceBetas, ceClientBeta,
                    ceSent >>
    /\ UNCHANGED exceptClaude

\* everything but the Claude executor and the thinking engine at rest
IdleExceptClaude ==
    /\ cfg = NilCfg
    /\ StreamAtStart
    /\ ManagerIdle
    /\ RRIdle
    /\ ThinkingIdle
    /\ PayloadIdle

\* requests with tools, a tool choice and a history
InitClaudeTools ==
    /\ IdleExceptClaude
    /\ ApplyIdle
    /\ AfterClaudeIdle
    /\ ceApiKey \in {OAuthKey, PlainKey}
    /\ ceTools \in ToolLists
    /\ ceToolChoice \in ToolChoices
    /\ ceHistory \in Histories
    /\ ceBetas = NoBetas
    /\ ceClientBeta = << >>
    /\ ceSent = NotSent
    /\ ceResp = NoResponse

NextClaudeTools == ClaudeExecuteSend \/ ClaudeReceive

SpecClaudeTools == InitClaudeTools /\ [][NextClaudeTools]_vars

\* requests with a betas field and a client Anthropic-Beta header
InitClaudeBetas ==
    /\ IdleExceptClaude
    /\ ApplyIdle
    /\ AfterClaudeIdle
    /\ ceApiKey \in {OAuthKey, PlainKey}
    /\ ceTools = << >>
    /\ ceToolChoice = NoToolChoice
    /\ ceHistory = << >>
    /\ ceBetas \in BetaFields
    /\ ceClientBeta \in ClientBetaHeaders
    /\ ceSent = NotSent
    /\ ceResp = NoResponse

NextClaudeBetas == ClaudeExecuteSend

SpecClaudeBetas == InitClaudeBetas /\ [][NextClaudeBetas]_vars

\* requests with a thinking configuration (suffix or body) and a tool choice
InitClaudeThinking ==
    /\ IdleExceptClaude
    /\ atModel \in { m \in ApplyModels : m.isNil \/ m.Thinking.Levels = << >> }
    /\ atProvider = "claude"
    /\ atSuffix \in RawSuffixes
    /\ atBody \in ClaudeBodies
    /\ atOut = NoOutput
    /\ atpc = "input"
    /\ AfterClaudeIdle
    /\ ceApiKey = OAuthKey
    /\ ceTools = << >>
    /\ ceToolChoice \in ToolChoices
    /\ ceHistory = << >>
    /\ ceBetas = NoBetas
    /\ ceClientBeta = << >>
    /\ ceSent = NotSent
    /\ ceResp = NoResponse

NextClaudeThinking == ClaudeExecuteSend

SpecClaudeThinking == InitClaudeThinking /\ [][NextClaudeThinking]_vars

\* everything before the later components at rest
EarlyIdle ==
    /\ IdleExceptClaude
    /\ ApplyIdle

\* the manager maps the model of the request for the selected auth
ApplyModelMapping ==
    /\ ~omOut.returned
    /\ LET out == applyOAuthModelMapping(compileModelNameMappingTable(omMappings),
                                         omAuth, omRequested, omMetadata)
       IN  omOut' = [returned |-> TRUE, model |-> out.model, metadata |-> out.metadata]
    /\ UNCHANGED << omAuth, omMappings, omRequested, omMetadata >>
    /\ UNCHANGED exceptMapping

InitMapping ==
    /\ EarlyIdle
    /\ ClaudeIdle
    /\ AfterMappingIdle
    /\ omAuth \in MappingAuths
    /\ omMappings \in { [c \in MappingChannels |-> IF c = "claude" THEN l ELSE << >>] :
                          l \in MappingLists }
    /\ omRequested \in RequestedModels
    /\ omMetadata \in Metadatas
    /\ omOut = NotMapped

NextMapping == ApplyModelMapping

SpecMapping == InitMapping /\ [][NextMapping]_vars

\* the calls that have not returned yet
InProgress == { ucProc[h].call : h \in { c \in UserIDCallers : ucProc[c].pc # "idle" } }

\* a goroutine enters cachedUserID: an empty key gets a fresh ID and no
\* cache entry; otherwise the cleanup goroutine is started once and the
\* time is read
UserIDCall(g, apiKey) ==
    /\ ucProc[g].pc = "idle"
    /\ Len(ucCalls) < MaxCalls
    /\ IF apiKey = ""
       THEN /\ ucNextID' = ucNextID + 1
            /\ ucCalls' = Append(ucCalls, [key |-> apiKey, now |-> ucNow,
                                           made |-> ucNextID + 1, id |-> ucNextID + 1,
                                           ret |-> ucNow, with |-> InProgress])
            /\ UNCHANGED << ucProc, userIDCacheCleanupOnce, ucCleanups >>
       ELSE /\ ucCalls' = Append(ucCalls, [key |-> apiKey, now |-> ucNow, made |-> 0,
                                           id |-> 0, ret |-> 0, with |-> InProgress])
            /\ ucProc' = [ucProc EXCEPT ![g] = [pc |-> "rlock", key |-> apiKey,
                                                now |-> ucNow, newID |-> 0,
                                                call |-> Len(ucCalls) + 1]]
            /\ userIDCacheCleanupOnce' = onceDone(userIDCacheCleanupOnce)
            /\ ucCleanups' = IF onceRuns(userIDCacheCleanupOnce) THEN ucCleanups + 1
                              ELSE ucCleanups
            /\ UNCHANGED ucNextID
    /\ UNCHANGED << ucNow, userIDCache, ucPurgeNow >>
    /\ UNCHANGED exceptUserID

\* the lookup under the read lock; a miss goes on to generate a new ID
UserIDLookup(g) ==
    LET p == ucProc[g]
    IN  /\ p.pc = "rlock"
        /\ IF entryValid(userIDCache[p.key], p.now)
           THEN /\ ucProc' = [ucProc EXCEPT ![g].pc = "renew"]
                /\ UNCHANGED << ucNextID, ucCalls >>
           ELSE /\ ucProc' = [ucProc EXCEPT ![g].pc = "store", ![g].newID = ucNextID + 1]
                /\ ucNextID' = ucNextID + 1
                /\ ucCalls' = [ucCalls EXCEPT ![p.call].made = ucNextID + 1]
        /\ UNCHANGED << ucNow, userIDCache, userIDCacheCleanupOnce, ucCleanups, ucPurgeNow >>
        /\ UNCHANGED exceptUserID

\* the hit path under the write lock: renew and return, or fall through to
\* generate a new ID when the entry is no longer valid
UserIDRenew(g) ==
    LET p == ucProc[g]
        entry == userIDCache[p.key]
    IN  /\ p.pc = "renew"
        /\ IF entryValid(entry, p.now)
           THEN /\ userIDCache' = [userIDCache EXCEPT ![p.key] = renewEntry(entry, p.now)]
                /\ ucCalls' = [ucCalls EXCEPT ![p.call].id = entry.value,
                                               ![p.call].ret = ucNow]
                /\ ucProc' = [ucProc EXCEPT ![g] = ProcIdle]
                /\ UNCHANGED ucNextID
           ELSE /\ ucProc' = [ucProc EXCEPT ![g].pc = "store", ![g].newID = ucNextID + 1]
                /\ ucNextID' = ucNextID + 1
                /\ ucCalls' = [ucCalls EXCEPT ![p.call].made = ucNextID + 1]
                /\ UNCHANGED userIDCache
        /\ UNCHANGED << ucNow, userIDCacheCleanupOnce, ucCleanups, ucPurgeNow >>
        /\ UNCHANGED exceptUserID

\* the miss path under the write lock
UserIDStore(g) ==
    LET p == ucProc[g]
        entry == storeEntry(userIDCache[p.key], p.now, p.newID)
    IN  /\ p.pc = "store"
        /\ userIDCache' = [userIDCache EXCEPT ![p.key] = entry]
        /\ ucCalls' = [ucCalls EXCEPT ![p.call].id = entry.value,
                                               ![p.call].ret = ucNow]
        /\ ucProc' = [ucProc EXCEPT ![g] = ProcIdle]
        /\ UNCHANGED << ucNow, ucNextID, userIDCacheCleanupOnce, ucCleanups, ucPurgeNow >>
        /\ UNCHANGED exceptUserID

\* the ticker of the cleanup goroutine fires and the sweep reads the time
PurgeStart ==
    /\ ucCleanups > 0
    /\ ucPurgeNow = -1
    /\ ucPurgeNow' = ucNow
    /\ UNCHANGED << ucNow, userIDCache, ucNextID, ucProc, ucCalls, userIDCacheCleanupOnce,
                    ucCleanups >>
    /\ UNCHANGED exceptUserID

\* the sweep under the write lock
PurgeSweep ==
    /\ ucPurgeNow # -1
    /\ userIDCache' = purgeExpired(userIDCache, ucPurgeNow)
    /\ ucPurgeNow' = -1
    /\ UNCHANGED << ucNow, ucNextID, ucProc, ucCalls, userIDCacheCleanupOnce, ucCleanups >>
    /\ UNCHANGED exceptUserID

\* time passes
UserIDTick ==
    /\ ucNow < MaxClock
    /\ ucNow' = ucNow + 1
    /\ UNCHANGED << userIDCache, ucNextID, ucProc, ucCalls, userIDCacheCleanupOnce,
                    ucCleanups, ucPurgeNow >>
    /\ UNCHANGED exceptUserID

InitUserID ==
    /\ EarlyIdle
    /\ ClaudeIdle
    /\ MappingIdle
    /\ UserIDIdle
    /\ AfterUserIDIdle

NextUserID ==
    \/ \E g \in UserIDCallers, k \in UserIDApiKeys : UserIDCall(g, k)
    \/ \E g \in UserIDCallers : UserIDLookup(g)
    \/ \E g \in UserIDCallers : UserIDRenew(g)
    \/ \E g \in UserIDCallers : UserIDStore(g)
    \/ PurgeStart
    \/ PurgeSweep
    \/ UserIDTick

SpecUserID == InitUserID /\ [][NextUserID]_vars

\* CacheSignature up to the lock: signatures that are empty or too short
\* are dropped, otherwise the session of the text hash is found or created
SigCacheBegin(g, signature) ==
    /\ sgProc[g].pc = "idle"
    /\ Len(sgOps) + Cardinality({h \in SigCallers : sgProc[h].pc # "idle"}) < MaxSigOps
    /\ IF signature = "" \/ sigLen(signature) < MinValidSignatureLen
       THEN /\ sgOps' = Append(sgOps, [kind |-> "dropped", at |-> sgNow, out |-> "", since |-> Len(sgOps)])
            /\ UNCHANGED << signatureCache, sgSessions, sgProc, sessionCleanupOnce >>
       ELSE /\ sessionCleanupOnce' = TRUE
            /\ IF signatureCache # NoSession
               THEN /\ sgProc' = [sgProc EXCEPT ![g] =
                                     [pc |-> "write", sc |-> signatureCache, at |-> 0,
                                      signature |-> signature, since |-> Len(sgOps)]]
                    /\ UNCHANGED << signatureCache, sgSessions >>
               ELSE /\ Len(sgSessions) < MaxSessions
                    /\ sgSessions' = Append(sgSessions, NoSigEntry)
                    /\ signatureCache' = Len(sgSessions) + 1
                    /\ sgProc' = [sgProc EXCEPT ![g] =
                                     [pc |-> "write", sc |-> Len(sgSessions) + 1, at |-> 0,
                                      signature |-> signature, since |-> Len(sgOps)]]
            /\ UNCHANGED sgOps
    /\ UNCHANGED << sgNow, sgModel, sgPurge >>
    /\ UNCHANGED exceptSig

\* CacheSignature under the session's lock
SigCacheWrite(g) ==
    LET p == sgProc[g]
    IN  /\ p.pc = "write"
        /\ sgSessions' = [sgSessions EXCEPT ![p.sc] =
                              [Signature |-> p.signature, Timestamp |-> sgNow]]
        /\ sgOps' = Append(sgOps, [kind |-> "cache", at |-> sgNow, out |-> p.signature, since |-> p.since])
        /\ sgProc' = [sgProc EXCEPT ![g] = SigProcIdle]
        /\ UNCHANGED << sgNow, sgModel, signatureCache, sgPurge, sessionCleanupOnce >>
        /\ UNCHANGED exceptSig

\* GetCachedSignature up to the lock: the session is looked up and the time
\* is read
SigGetBegin(g) ==
    /\ sgProc[g].pc = "idle"
    /\ Len(sgOps) + Cardinality({h \in SigCallers : sgProc[h].pc # "idle"}) < MaxSigOps
    /\ IF signatureCache = NoSession
       THEN /\ sgOps' = Append(sgOps, [kind |-> "miss", at |-> sgNow, out |-> sigMiss(sgModel),
                                       since |-> Len(sgOps)])
            /\ UNCHANGED sgProc
       ELSE /\ sgProc' = [sgProc EXCEPT ![g] =
                             [pc |-> "check", sc |-> signatureCache, at |-> sgNow,
                              signature |-> "", since |-> Len(sgOps)]]
            /\ UNCHANGED sgOps
    /\ UNCHANGED << sgNow, sgModel, signatureCache, sgSessions, sgPurge, sessionCleanupOnce >>
    /\ UNCHANGED exceptSig

\* GetCachedSignature under the session's lock: a missing or expired entry
\* is a miss (the expired one is deleted), any other is refreshed and returned
SigGetCheck(g) ==
    LET p == sgProc[g]
        entry == sgSessions[p.sc]
    IN  /\ p.pc = "check"
        /\ IF entry = NoSigEntry
           THEN /\ sgOps' = Append(sgOps, [kind |-> "miss", at |-> p.at,
                                           out |-> sigMiss(sgModel), since |-> p.since])
                /\ UNCHANGED sgSessions
           ELSE IF sigExpired(entry, p.at)
           THEN /\ sgSessions' = [sgSessions EXCEPT ![p.sc] = NoSigEntry]
                /\ sgOps' = Append(sgOps, [kind |-> "miss", at |-> p.at,
                                           out |-> sigMiss(sgModel), since |-> p.since])
           ELSE /\ sgSessions' = [sgSessions EXCEPT ![p.sc].Timestamp = p.at]
                /\ sgOps' = Append(sgOps, [kind |-> "hit", at |-> p.at,
                                           out |-> entry.Signature, since |-> p.since])
        /\ sgProc' = [sgProc EXCEPT ![g] = SigProcIdle]
        /\ UNCHANGED << sgNow, sgModel, signatureCache, sgPurge, sessionCleanupOnce >>
        /\ UNCHANGED exceptSig

\* the cleanup ticker fires: purgeExpiredSessions reads the time and ranges
\* over the sessions
SigPurgeBegin ==
    /\ sessionCleanupOnce
    /\ sgPurge.pc = "idle"
    /\ signatureCache # NoSession
    /\ sgPurge' = [pc |-> "lock", at |-> sgNow, sc |-> signatureCache]
    /\ UNCHANGED << sgNow, sgModel, signatureCache, sgSessions, sgProc, sgOps,
                    sessionCleanupOnce >>
    /\ UNCHANGED exceptSig

\* the sweep of one session under its lock
SigPurgeLocked ==
    LET entry == sgSessions[sgPurge.sc]
        expired == entry # NoSigEntry /\ sigExpired(entry, sgPurge.at)
    IN  /\ sgPurge.pc = "lock"
        /\ sgSessions' = IF expired THEN [sgSessions EXCEPT ![sgPurge.sc] = NoSigEntry]
                         ELSE sgSessions
        /\ sgPurge' = IF expired \/ entry = NoSigEntry
                      THEN [sgPurge EXCEPT !.pc = "delete"]
                      ELSE PurgeIdle
        /\ UNCHANGED << sgNow, sgModel, signatureCache, sgProc, sgOps, sessionCleanupOnce >>
        /\ UNCHANGED exceptSig

\* the session found empty is removed from signatureCache, after its lock
\* was released
SigPurgeDelete ==
    /\ sgPurge.pc = "delete"
    /\ signatureCache' = NoSession
    /\ sgPurge' = PurgeIdle
    /\ UNCHANGED << sgNow, sgModel, sgSessions, sgProc, sgOps, sessionCleanupOnce >>
    /\ UNCHANGED exceptSig

\* time passes
SigTick ==
    /\ sgNow < MaxSigClock
    /\ sgNow' = sgNow + 1
    /\ UNCHANGED << sgModel, signatureCache, sgSessions, sgProc, sgOps, sgPurge,
                    sessionCleanupOnce >>
    /\ UNCHANGED exceptSig

InitSignature ==
    /\ EarlyIdle
    /\ ClaudeIdle
    /\ MappingIdle
    /\ UserIDIdle
    /\ AfterSigIdle
    /\ sgNow = 0
    /\ sgModel \in SigModels
    /\ signatureCache = NoSession
    /\ sgSessions = << >>
    /\ sgProc = [g \in SigCallers |-> SigProcIdle]
    /\ sgOps = << >>
    /\ sgPurge = PurgeIdle
    /\ sessionCleanupOnce = FALSE

NextSignature ==
    \/ \E g \in SigCallers, s \in Signatures : SigCacheBegin(g, s)
    \/ \E g \in SigCallers : SigCacheWrite(g)
    \/ \E g \in SigCallers : SigGetBegin(g)
    \/ \E g \in SigCallers : SigGetCheck(g)
    \/ SigPurgeBegin
    \/ SigPurgeLocked
    \/ SigPurgeDelete
    \/ SigTick

SpecSignature == InitSignature /\ [][NextSignature]_vars

\* WriteErrorResponse builds the body for the message it was given
WriteErrorResponse ==
    /\ ~weBody.written
    /\ weCall' = writeErrorArgs(weMsg)
    /\ weBody' = BuildErrorResponseBody(writeErrorArgs(weMsg).status,
                                        writeErrorArgs(weMsg).errText)
    /\ UNCHANGED weMsg
    /\ UNCHANGED exceptError

InitError ==
    /\ EarlyIdle
    /\ ClaudeIdle
    /\ MappingIdle
    /\ UserIDIdle
    /\ SigIdle
    /\ AfterErrorIdle
    /\ weMsg \in ErrorMessages
    /\ weCall = NoCallYet
    /\ weBody = NoBody

NextError == WriteErrorResponse

SpecError == InitError /\ [][NextError]_vars

(***************************************************************************)
(* One call of the Antigravity executor over its base URLs                 *)
(***************************************************************************)
\* Execute, executeClaudeNonStream, ExecuteStream or CountTokens up to the
\* loop: the call holds an access token and has its list of base URLs
FallbackBegin(op, auth) ==
    /\ fbpc = "idle"
    /\ fbOp' = op
    /\ fbAuth' = auth
    /\ fbBaseURLs' = antigravityBaseURLFallbackOrder(auth)
    /\ fbIdx' = 1
    /\ fbpc' = "loop"
    /\ UNCHANGED << fbRequests, fbLast, fbResult >>
    /\ UNCHANGED exceptFallback

\* one iteration: the request to the current base URL meets outcome o, and
\* the call moves to the next URL or returns
FallbackAttempt(o) ==
    /\ fbpc = "loop"
    /\ o.readErr => readsBody(fbOp, o.status)
    /\ LET more == fbIdx < Len(fbBaseURLs)
           step == fallbackStep(fbOp, o, more, fbLast)
       IN  /\ fbRequests' = Append(fbRequests, [url |-> fbBaseURLs[fbIdx], outcome |-> o])
           /\ fbLast' = step.last
           /\ fbResult' = step.result
           /\ fbIdx' = IF step.result.returned THEN fbIdx ELSE fbIdx + 1
           /\ fbpc' = IF step.result.returned THEN "done" ELSE "loop"
    /\ UNCHANGED << fbOp, fbAuth, fbBaseURLs >>
    /\ UNCHANGED exceptFallback

InitFallback ==
    /\ EarlyIdle
    /\ ClaudeIdle
    /\ MappingIdle
    /\ UserIDIdle
    /\ SigIdle
    /\ ErrorIdle
    /\ FallbackIdle
    /\ AliasIdle
    /\ SessionCacheIdle
    /\ GroupCacheIdle

NextFallback ==
    \/ \E op \in FallbackOps, auth \in FallbackAuths : FallbackBegin(op, auth)
    \/ \E o \in Outcomes : FallbackAttempt(o)

SpecFallback == InitFallback /\ [][NextFallback]_vars

(***************************************************************************)
(* Provider resolution, selection and alias mapping of one request         *)
(***************************************************************************)
\* the service registers each credential's models, aliases applied
RegisterClients ==
    /\ alpc = "start"
    /\ alRegistry' = registeredModels(alMappings)
    /\ alpc' = "registered"
    /\ UNCHANGED << alMappings, alRequested, alProviders, alAuth, alOut >>
    /\ UNCHANGED exceptAlias

\* the handler resolves the providers of the requested model
GetRequestDetails(modelName) ==
    /\ alpc = "registered"
    /\ alRequested' = modelName
    /\ LET details == getRequestDetails(alRegistry, modelName)
       IN  /\ alProviders' = details.providers
           /\ alpc' = IF details.err # "" THEN "rejected" ELSE "resolved"
    /\ UNCHANGED << alMappings, alRegistry, alAuth, alOut >>
    /\ UNCHANGED exceptAlias

\* the manager selects a credential of one of the providers that serves
\* the model
SelectAuth(auth) ==
    /\ alpc = "resolved"
    /\ auth.Provider \in alProviders
    /\ ClientSupportsModel(alRegistry, auth, alRequested)
    /\ alAuth' = auth
    /\ alpc' = "selected"
    /\ UNCHANGED << alMappings, alRegistry, alRequested, alProviders, alOut >>
    /\ UNCHANGED exceptAlias

\* the manager maps the model name for the selected credential and hands
\* the request to the executor
ExecuteMapped(metadata) ==
    /\ alpc = "selected"
    /\ alOut' = applyOAuthModelMapping(compileModelNameMappingTable(alMappings),
                                       alAuth, alRequested, metadata)
    /\ alpc' = "executed"
    /\ UNCHANGED << alMappings, alRegistry, alRequested, alProviders, alAuth >>
    /\ UNCHANGED exceptAlias

InitAlias ==
    /\ EarlyIdle
    /\ ClaudeIdle
    /\ MappingIdle
    /\ UserIDIdle
    /\ SigIdle
    /\ ErrorIdle
    /\ FallbackIdle
    /\ alMappings \in AliasConfigs
    /\ alRegistry = [a \in AliasAuths |-> {}]
    /\ alRequested = ""
    /\ alProviders = {}
    /\ alAuth = NotSelected
    /\ alOut = NotExecuted
    /\ alpc = "start"
    /\ SessionCacheIdle
    /\ GroupCacheIdle

NextAlias ==
    \/ RegisterClients
    \/ \E m \in AliasRequests : GetRequestDetails(m)
    \/ \E a \in AliasAuths : SelectAuth(a)
    \/ \E md \in Metadatas : ExecuteMapped(md)

SpecAlias == InitAlias /\ [][NextAlias]_vars

(***************************************************************************)
(* The session-keyed signature cache.  Each function holds the session's    *)
(* lock for its whole body, so a call is one step.                          *)
(***************************************************************************)
\* CacheSignature(sessionID, text, signature)
SessionCacheSignature(sessionID, text, signature) ==
    /\ IF rejectsSignature(sessionID, text, signature)
       THEN /\ scSessions' = scSessions
            /\ scLast' = [kind |-> "rejected", expired |-> 0, oldest |-> 0]
       ELSE LET entries == scSessions[sessionID].entries
                live == evictExpired(entries, scNow)
            IN  \E R \in oldestChoices(entries, live) :
                  /\ scSessions' =
                       [scSessions EXCEPT ![sessionID] =
                          [exists |-> TRUE,
                           entries |-> putEntry(dropKeys(live, R), hashText(text),
                                                [Signature |-> signature,
                                                 Timestamp |-> scNow])]]
                  /\ scLast' = [kind |-> "stored",
                                expired |-> Cardinality(DOMAIN entries)
                                              - Cardinality(DOMAIN live),
                                oldest |-> Cardinality(R)]
    /\ UNCHANGED scNow
    /\ UNCHANGED exceptSessionCache

\* GetCachedSignature(sessionID, text): a lookup that finds an expired
\* entry deletes it
SessionGetCachedSignature(sessionID, text) ==
    /\ IF sessionID = "" \/ text = "" THEN scSessions' = scSessions
       ELSE LET entries == scSessions[sessionID].entries
                key == hashText(text)
            IN  IF key \in DOMAIN entries /\ sigExpired(entries[key], scNow)
                THEN scSessions' = [scSessions EXCEPT
                                      ![sessionID].entries = dropKeys(entries, {key})]
                ELSE scSessions' = scSessions
    /\ scLast' = [kind |-> "looked up", expired |-> 0, oldest |-> 0]
    /\ UNCHANGED scNow
    /\ UNCHANGED exceptSessionCache

\* ClearSignatureCache(sessionID)
SessionClearSignatureCache(sessionID) ==
    /\ scSessions' = [s \in CacheSessions |->
                        IF sessionID = "" \/ s = sessionID THEN NoSessionCache
                        ELSE scSessions[s]]
    /\ scLast' = [kind |-> "cleared", expired |-> 0, oldest |-> 0]
    /\ UNCHANGED scNow
    /\ UNCHANGED exceptSessionCache

\* the background cleanup: purgeExpiredSessions
SessionPurgeExpired ==
    /\ scSessions' = [s \in CacheSessions |-> purgeSession(scSessions[s], scNow)]
    /\ scLast' = [kind |-> "purged", expired |-> 0, oldest |-> 0]
    /\ UNCHANGED scNow
    /\ UNCHANGED exceptSessionCache

SessionCacheTick ==
    /\ scNow < MaxCacheClock
    /\ scNow' = scNow + 1
    /\ UNCHANGED << scSessions, scLast >>
    /\ UNCHANGED exceptSessionCache

InitSessionCache ==
    /\ EarlyIdle
    /\ ClaudeIdle
    /\ MappingIdle
    /\ UserIDIdle
    /\ SigIdle
    /\ ErrorIdle
    /\ FallbackIdle
    /\ AliasIdle
    /\ SessionCacheIdle
    /\ GroupCacheIdle

NextSessionCache ==
    \/ \E c \in SessionCacheCalls :
          SessionCacheSignature(c.sessionID, c.text, c.signature)
    \/ \E l \in SessionLookups : SessionGetCachedSignature(l[1], l[2])
    \/ \E id \in CacheSessions \cup {""} : SessionClearSignatureCache(id)
    \/ SessionPurgeExpired
    \/ SessionCacheTick

SpecSessionCache == InitSessionCache /\ [][NextSessionCache]_vars

(***************************************************************************)
(* The signature cache keyed by model group.  CacheSignature obtains the    *)
(* session before it takes the session's lock, and the sweeper deletes an   *)
(* empty session after it has released the lock; the lookup and the clear   *)
(* are one step each.                                                       *)
(***************************************************************************)
\* CacheSignature(modelName, text, signature) up to getOrCreateSession
GroupCacheBegin(modelName, text, signature) ==
    /\ gcCaller = NoCaller
    /\ IF text = "" \/ signature = "" \/ cachedSigLen(signature) < MinValidSignatureLen
       THEN /\ UNCHANGED << gcSessions, gcCaller >>
            /\ gcLast' = [NoGroupCall EXCEPT !.kind = "rejected"]
       ELSE /\ gcSessions' = [gcSessions EXCEPT ![groupKey(modelName, text)].exists = TRUE]
            /\ gcCaller' = [modelName |-> modelName, text |-> text,
                            signature |-> signature, orphaned |-> FALSE,
                            cleared |-> FALSE]
            /\ UNCHANGED gcLast
    /\ UNCHANGED << gcNow, gcLatest, gcPending >>
    /\ UNCHANGED exceptGroupCache

\* CacheSignature from sc.mu.Lock on: the entry is written to the session
\* obtained, which the map may hold no longer
GroupCacheStore ==
    /\ gcCaller # NoCaller
    /\ LET textHash == groupKey(gcCaller.modelName, gcCaller.text)
       IN  /\ gcSessions' =
                IF gcCaller.orphaned THEN gcSessions
                ELSE [gcSessions EXCEPT ![textHash].entries =
                        putEntry(gcSessions[textHash].entries, textHash,
                                 [Signature |-> gcCaller.signature,
                                  Timestamp |-> gcNow])]
           /\ gcLatest' = [gcLatest EXCEPT
                             ![<<GetModelGroup(gcCaller.modelName), gcCaller.text>>] =
                                 gcCaller.signature]
           /\ gcLast' = [NoGroupCall EXCEPT !.kind = IF gcCaller.cleared
                                                      THEN "stored, cleared"
                                                      ELSE "stored",
                                            !.model = gcCaller.modelName,
                                            !.text = gcCaller.text, !.at = gcNow]
    /\ gcCaller' = NoCaller
    /\ UNCHANGED << gcNow, gcPending >>
    /\ UNCHANGED exceptGroupCache

\* GetCachedSignature(modelName, text): an expired entry is deleted, a live
\* one has its timestamp refreshed
GroupGetCachedSignature(modelName, text) ==
    /\ LET textHash == groupKey(modelName, text)
           done(ret) == gcLast' = [NoGroupCall EXCEPT !.kind = "looked up",
                                     !.model = modelName, !.text = text, !.ret = ret]
       IN  IF text = "" \/ ~gcSessions[textHash].exists
                        \/ textHash \notin DOMAIN gcSessions[textHash].entries
           THEN /\ done(sigMiss(modelName))
                /\ UNCHANGED gcSessions
           ELSE LET entries == gcSessions[textHash].entries
                IN  IF sigExpired(entries[textHash], gcNow)
                    THEN /\ done(sigMiss(modelName))
                         /\ gcSessions' = [gcSessions EXCEPT ![textHash].entries =
                                             dropKeys(entries, {textHash})]
                    ELSE /\ done(entries[textHash].Signature)
                         /\ gcSessions' = [gcSessions EXCEPT
                                             ![textHash].entries[textHash].Timestamp = gcNow]
    /\ UNCHANGED << gcNow, gcLatest, gcCaller, gcPending >>
    /\ UNCHANGED exceptGroupCache

\* ClearSignatureCache(sessionID)
GroupClearSignatureCache(sessionID) ==
    /\ LET deleted == { k \in GroupKeys :
                          sessionID = NoSessionID \/ keyHasSessionSuffix(k, sessionID) }
       IN  /\ gcSessions' = [k \in GroupKeys |->
                               IF k \in deleted THEN NoSessionCache ELSE gcSessions[k]]
           /\ gcCaller' = orphanedBy(gcCaller, deleted, TRUE)
    /\ gcLast' = [NoGroupCall EXCEPT !.kind = "cleared", !.id = sessionID]
    /\ UNCHANGED << gcNow, gcLatest, gcPending >>
    /\ UNCHANGED exceptGroupCache

\* purgeExpiredSessions on one session, under its lock: the expired
\* entries go and isEmpty is computed
GroupPurgeLook(k) ==
    /\ gcPending = NoPending
    /\ gcSessions[k].exists
    /\ LET kept == dropKeys(gcSessions[k].entries,
                            expiredKeys(gcSessions[k].entries, gcNow))
       IN  /\ gcSessions' = [gcSessions EXCEPT ![k].entries = kept]
           /\ gcPending' = IF DOMAIN kept = {} THEN << k >> ELSE NoPending
    /\ UNCHANGED << gcNow, gcLatest, gcLast, gcCaller >>
    /\ UNCHANGED exceptGroupCache

\* purgeExpiredSessions after the lock is released: signatureCache.Delete
GroupPurgeDelete ==
    /\ gcPending # NoPending
    /\ gcSessions' = [gcSessions EXCEPT ![gcPending[1]] = NoSessionCache]
    /\ gcCaller' = orphanedBy(gcCaller, {gcPending[1]}, FALSE)
    /\ gcPending' = NoPending
    /\ UNCHANGED << gcNow, gcLatest, gcLast >>
    /\ UNCHANGED exceptGroupCache

GroupCacheTick ==
    /\ gcNow < MaxCacheClock
    /\ gcNow' = gcNow + 1
    /\ UNCHANGED << gcSessions, gcLatest, gcLast, gcCaller, gcPending >>
    /\ UNCHANGED exceptGroupCache

InitGroupCache ==
    /\ EarlyIdle
    /\ ClaudeIdle
    /\ MappingIdle
    /\ UserIDIdle
    /\ SigIdle
    /\ ErrorIdle
    /\ FallbackIdle
    /\ AliasIdle
    /\ SessionCacheIdle
    /\ gcNow = 0
    /\ gcSessions = [k \in GroupKeys |-> NoSessionCache]
    /\ gcLatest = [p \in GroupPairs |-> ""]
    /\ gcLast = NoGroupCall
    /\ gcCaller = NoCaller
    /\ gcPending = NoPending

NextGroupCache ==
    \/ \E c \in GroupCacheCalls : GroupCacheBegin(c.modelName, c.text, c.signature)
    \/ GroupCacheStore
    \/ \E l \in GroupLookups : GroupGetCachedSignature(l[1], l[2])
    \/ \E id \in ClearIDs : GroupClearSignatureCache(id)
    \/ \E k \in GroupKeys : GroupPurgeLook(k)
    \/ GroupPurgeDelete
    \/ GroupCacheTick

SpecGroupCache == InitGroupCache /\ [][NextGroupCache]_vars

(***************************************************************************)
(* Properties of the streaming path                                        *)
(***************************************************************************)
IsPrefix(s, t) == Len(s) <= Len(t) /\ SubSeq(t, 1, Len(s)) = s

IsPayloadChunk(c) == c.Err = Nil /\ Len(c.Payload) > 0

\* the non-empty payloads of a sequence of chunks, in order
NonEmptyPayloads(chunks) ==
    LET kept == SelectSeq(chunks, IsPayloadChunk)
    IN  [i \in 1 .. Len(kept) |-> kept[i].Payload]

RECURSIVE ProducedUpTo(_)
\* the chunks the readers of attempts 1..n handed over, in attempt order
ProducedUpTo(n) == IF n = 0 THEN << >> ELSE ProducedUpTo(n - 1) \o produced[n]

\* BootstrapRetries as the configuration means it: unset or negative is 0
ConfiguredRetries ==
    IF cfg.isNil \/ cfg.BootstrapRetries < 0 THEN 0 ELSE cfg.BootstrapRetries

\* the statuses the spec lists as retry-eligible
RetryEligibleStatus(e) ==
    e = 0 \/ e \in {401, 402, 403, 408, 429} \/ e >= 500

\* C1: one client stream makes at most 1 + BootstrapRetries invocations of
\* AuthManager.ExecuteStream, whatever the outcome; an unset or negative
\* BootstrapRetries counts as 0.
C1_RetryBound == calls <= 1 + ConfiguredRetries

C1_Witness ==
    /\ fpc = "done"
    /\ ConfiguredRetries >= 1
    /\ calls = 1 + ConfiguredRetries

\* the facade takes an error chunk from the current upstream channel
ErrChunkTaken ==
    /\ fpc = "recv"
    /\ epc[cur] = "send"
    /\ epend[cur].Err # Nil
    /\ epend'[cur] = NoChunk

\* C2: once a non-empty payload has been forwarded to the client, an upstream
\* error never causes another ExecuteStream invocation: it is sent on the
\* error channel and the stream ends.
C2_NoRetryAfterPayload ==
    [][ (received # << >> /\ ErrChunkTaken)
        => /\ calls' = calls
           /\ errSends' = errSends + 1
           /\ errChan' = Append(errChan, errorMessageStatus(epend[cur].Err))
           /\ fpc' = "done"
           /\ dataChan' = "closed" ]_vars

C2_Witness ==
    /\ fpc = "done"
    /\ received # << >>
    /\ ConfiguredRetries >= 1
    /\ calls = 1
    /\ errChan = << 503 >>

\* C3: if attempts 1..k (k <= BootstrapRetries) each fail with a
\* retry-eligible error as their first chunk and attempt k+1 succeeds, the
\* client receives exactly the (non-empty) payloads of attempt k+1, then the
\* data channel is closed, nothing is sent on the error channel and there
\* were exactly k+1 invocations.
C3_RetriesBeforeFirstByte ==
    \A k \in 0 .. MaxCfgRetries :
        ( /\ fpc = "done"
          /\ ~ctxDone
          /\ k <= ConfiguredRetries
          /\ epc[k + 1] = "closed"
          /\ \A a \in 1 .. k :
                /\ produced[a] # << >>
                /\ produced[a][1].Err # Nil
                /\ RetryEligibleStatus(produced[a][1].Err)
          /\ \A i \in DOMAIN produced[k + 1] : produced[k + 1][i].Err = Nil )
        => ( /\ received = NonEmptyPayloads(produced[k + 1])
             /\ dataChan = "closed"
             /\ errSends = 0
             /\ calls = k + 1 )

C3_Witness ==
    /\ fpc = "done"
    /\ ~ctxDone
    /\ calls = 2
    /\ produced[1] = << StreamChunk(<< >>, 401) >>
    /\ epc[2] = "closed"
    /\ received = << << 1 >> >>
    /\ dataChan = "closed"
    /\ errSends = 0

C5_CancelTerminates ==
    ctxDone ~> ( /\ fpc = "done"
                 /\ \A a \in Attempts : epc[a] \in {"unborn", "closed"} )

\* C6: the non-empty payloads reach the client in the order the executor
\* produced them, none duplicated, reordered or dropped: what the client has
\* is always a prefix of what was produced, and all of it once the stream
\* has ended without cancellation.
C6_OrderPreserved ==
    /\ IsPrefix(received, NonEmptyPayloads(ProducedUpTo(calls)))
    /\ (fpc = "done" /\ ~ctxDone /\ dataChan = "closed")
          => received = NonEmptyPayloads(ProducedUpTo(calls))

C6_Witness ==
    /\ fpc = "done"
    /\ ~ctxDone
    /\ produced[1] = << StreamChunk(<< 2 >>, Nil), StreamChunk(<< 1 >>, Nil) >>
    /\ received = << << 2 >>, << 1 >> >>

(***************************************************************************)
(* Properties of the auth manager and the fill-first selector              *)
(***************************************************************************)
\* C7: an auth that is quota-exceeded and cooling down on the model is never
\* the first auth Execute invokes the executor with while a non-cooling
\* alternative exists in the request's provider set.
C7_CoolingNeverFirst ==
    attemptLog # << >> => ~(attemptLog[1].cooling /\ attemptLog[1].alt)

\* a cooling auth that the selector would otherwise have preferred was
\* passed over for the first attempt
C7_Witness ==
    /\ attemptLog # << >>
    /\ \E a \in attemptLog[1].skipped :
          /\ priority[a] >= priority[attemptLog[1].auth]
          /\ LexLess(a, attemptLog[1].auth)

\* min(number of candidates, maxAttempts), maxAttempts defaulting to the
\* number of candidates
ConfiguredAttemptBound ==
    IF reqMaxAttempts = 0 \/ candCount < reqMaxAttempts
    THEN candCount ELSE reqMaxAttempts

\* C8: one Execute request invokes the executor at most
\* min(#candidates, maxAttempts) times and never twice with the same auth.
C8_AttemptsBounded ==
    /\ Len(attemptLog) <= ConfiguredAttemptBound
    /\ \A i, j \in DOMAIN attemptLog :
          i # j => attemptLog[i].auth # attemptLog[j].auth

C8_Witness ==
    /\ mpc = "done"
    /\ result.kind = "error"
    /\ candCount = 3
    /\ reqMaxAttempts = 2
    /\ Len(attemptLog) = 2

\* the executor of the running attempt returns with status s
ExecutorReturned(s) ==
    /\ mpc = "invoking"
    /\ attemptLog'[Len(attemptLog)].status = s

\* Execute returns the error at once and leaves every (auth, model) state
ReturnedVerbatim(s) ==
    /\ mpc' = "done"
    /\ result' = ErrorResult(s)
    /\ Len(attemptLog') = Len(attemptLog)
    /\ modelState' = modelState

\* C9 as claimed: an executor error with a status below 500 other than 408
\* and 429 is returned immediately, no other credential is tried and no
\* (auth, model) state changes.
C9_ClientErrorAsClaimed ==
    [][ \A s \in ExecOutcomes :
           (s >= 400 /\ s < 500 /\ s \notin {408, 429} /\ ExecutorReturned(s))
           => ReturnedVerbatim(s) ]_vars

\* C9 amended: the same for a status below 500 other than 401, 402, 403,
\* 408 and 429.
C9_ClientErrorVerbatim ==
    [][ \A s \in ExecOutcomes :
           (s >= 400 /\ s < 500 /\ s \notin {401, 402, 403, 408, 429}
            /\ ExecutorReturned(s))
           => ReturnedVerbatim(s) ]_vars

\* a 400 was returned after one attempt although other candidates were left
C9_Witness ==
    /\ mpc = "done"
    /\ result = ErrorResult(400)
    /\ Len(attemptLog) = 1
    /\ candCount >= 2

\* the smallest ID, in lexical order, of the non-cooling auths of the
\* highest priority found among the non-cooling auths
ExpectedFillFirst(blocked) ==
    LET avail == AuthIDs \ blocked
    IN  IF avail = {} THEN NoAuth
        ELSE LET top == CHOOSE p \in {priority[a] : a \in avail} :
                            \A a \in avail : priority[a] <= p
                 bucket == {a \in avail : priority[a] = top}
             IN  CHOOSE a \in bucket : \A b \in bucket : a = b \/ LexLess(a, b)

\* C10: FillFirstSelector.Pick returns the non-cooling candidate with the
\* lexically smallest ID of the highest priority bucket that has a
\* non-cooling candidate, whatever the order of the slice; so marking it
\* cooling yields the next one and clearing the cooldown the original again.
C10_FillFirstDeterministic ==
    /\ \A i \in DOMAIN pickLog :
          pickLog[i].result = ExpectedFillFirst(pickLog[i].blocked)
    /\ \A i, j \in DOMAIN pickLog :
          pickLog[i].blocked = pickLog[j].blocked
             => pickLog[i].result = pickLog[j].result

\* with "1" cooling Pick returned "10"; after clearing it returned "1"
C10_Witness ==
    /\ priority = [a \in AuthIDs |-> 0]
    /\ pickLog = << [result |-> << 1, 0 >>, blocked |-> { << 1 >> }],
                    [result |-> << 1 >>, blocked |-> {}] >>

\* the highest priority found among all the candidates
TopPriority ==
    CHOOSE p \in {priority[a] : a \in AuthIDs} : \A a \in AuthIDs : priority[a] <= p

\* the candidates of the highest priority bucket
TopBucket == {a \in AuthIDs : priority[a] = TopPriority}

\* C11: when every candidate of the highest priority bucket is in cooldown
\* (NextRetryAfter in the future) FillFirstSelector.Pick returns a
\* non-cooling candidate of the next lower bucket that has one, and once
\* NextRetryAfter has passed for a candidate of the highest bucket Pick
\* returns a candidate of the highest bucket again.
C11_FallbackAndReturn ==
    \A i \in DOMAIN pickLog :
       LET e == pickLog[i]
           lower == {a \in AuthIDs \ e.blocked : priority[a] < TopPriority}
       IN  /\ (TopBucket \subseteq e.blocked /\ lower # {})
                => /\ e.result \in lower
                   /\ \A a \in lower : priority[a] <= priority[e.result]
           /\ ~(TopBucket \subseteq e.blocked)
                => e.result \in TopBucket \ e.blocked

\* the only high-priority auth "1" was cooling and Pick returned "10" of the
\* lower bucket; its NextRetryAfter passed, uncleared, and Pick returned "1"
C11_Witness ==
    /\ priority = [a \in AuthIDs |-> IF a = << 1 >> THEN 10 ELSE 0]
    /\ modelState[<< 1 >>].Unavailable
    /\ modelState[<< 1 >>].NextRetryAfter <= now
    /\ pickLog = << [result |-> << 1, 0 >>, blocked |-> { << 1 >> }],
                    [result |-> << 1 >>, blocked |-> {}] >>

\* what a round-robin pick with a counter value must return when the given
\* auths are cooling: the sorted non-cooling top bucket at counter mod size
ExpectedRoundRobin(counter, blocked) ==
    LET avail == AuthIDs \ blocked
        top == CHOOSE p \in {priority[a] : a \in avail} :
                  \A a \in avail : priority[a] <= p
        bucket == {a \in avail : priority[a] = top}
        Rank(a) == Cardinality({b \in bucket : LexLess(b, a)})
    IN  CHOOSE a \in bucket : Rank(a) = counter % Cardinality(bucket)

\* C12: with the same cooldown state, successive RoundRobinSelector.Pick
\* calls return the candidates of the top bucket in ascending lexical ID
\* order, cyclically, starting with the smallest ID on a fresh selector,
\* whatever the order of the candidate slice.
C12_RoundRobinCycle ==
    \A i \in DOMAIN rrLog :
       rrLog[i].blocked # AuthIDs
          => rrLog[i].result = ExpectedRoundRobin(rrLog[i].idx, rrLog[i].blocked)

\* the two auths of the top bucket were served and the cycle wrapped:
\* the second call returned "2" and the third "1" again
C12_Witness ==
    /\ priority = [a \in AuthIDs |-> IF a = << 1, 0 >> THEN 0 ELSE 10]
    /\ rrLog = << [idx |-> 1, blocked |-> {}, result |-> << 2 >>, err |-> FALSE],
                  [idx |-> 2, blocked |-> {}, result |-> << 1 >>, err |-> FALSE] >>

\* C13: RoundRobinSelector.Pick never returns a candidate of a lower
\* priority bucket while a higher bucket has a non-cooling candidate, and
\* never a cooling candidate.
C13_RoundRobinTopBucketOnly ==
    \A i \in DOMAIN rrLog :
       LET e == rrLog[i]
       IN  e.result # NoAuth
             => /\ e.result \notin e.blocked
                /\ \A a \in AuthIDs \ e.blocked : priority[a] <= priority[e.result]

\* two picks cycled inside the high bucket while the low-priority auth "2"
\* was usable all along
C13_Witness ==
    /\ priority = [a \in AuthIDs |-> IF a = << 2 >> THEN 0 ELSE 10]
    /\ Len(rrLog) = 2
    /\ rrLog[1].result = << 1 >> /\ rrLog[1].blocked = {}
    /\ rrLog[2].result = << 1, 0 >> /\ rrLog[2].blocked = {}

\* C14: every Pick of the goroutines sharing the selector, on a candidate
\* list with a usable candidate, returns without error a member of the list
\* (never nil, never an empty ID), each call holding its own counter value,
\* and a goroutine inside Pick can always return.
C14_ConcurrentPickReturnsMember ==
    /\ \A i \in DOMAIN rrLog :
          rrLog[i].blocked # AuthIDs
             => /\ ~rrLog[i].err
                /\ rrLog[i].result \in AuthIDs
                /\ rrLog[i].result # NoAuth
    /\ \A g, h \in Goroutines :
          (g # h /\ gpc[g] = "inPick" /\ gpc[h] = "inPick"
             /\ gsel[g].bucket # << >> /\ gsel[h].bucket # << >>
             /\ priority[gsel[g].bucket[1]] = priority[gsel[h].bucket[1]])
          => gsel[g].idx # gsel[h].idx
    /\ \A g \in Goroutines : gpc[g] = "inPick" => ENABLED RRPickReturn(g)

\* both goroutines were inside Pick at once and both have returned a member
C14_Witness ==
    /\ \A g \in Goroutines : gpc[g] = "inPick" /\ gsel[g].bucket # << >>
    /\ Len(rrLog) = 2
    /\ \A i \in DOMAIN rrLog : rrLog[i].result \in AuthIDs

\* ValidateConfig has been applied to a budget configuration of a
\* budget-only model
BudgetOnlyValidated ==
    /\ thpc # "input"
    /\ detectModelCapability(thSupport) = "budgetOnly"
    /\ thConfig.Mode = "budget"

InRange(b) == thSupport.Min <= b /\ b <= thSupport.Max

C16_Idempotent ==
    thpc = "revalidated" => (thAgain.ok /\ thAgain.cfg = thResult.cfg)

\* C17: ValidateConfig never returns successfully with Mode level and a
\* Level outside the model's Levels, whether the level came from the request
\* or from an internal conversion (budget to level, auto to medium).
C17_NoUnsupportedLevel ==
    (thpc # "input" /\ thResult.ok /\ thResult.cfg.Mode = "level")
       => isLevelSupported(thResult.cfg.Level, thSupport.Levels)

\* the mode, budget and level a body carries for a provider
ThinkingFields(body, provider) ==
    IF provider = "claude" THEN << body.ctype, body.cbudget >>
    ELSE << body.tlevel, body.tbudget >>

\* the suffix is one the parser turns into a configuration
RecognisedSuffix(raw) == raw # "" /\ hasThinkingConfig(parseSuffixToConfig(raw))

\* C18: when the model name carries a thinking suffix, the mode, budget and
\* level of the outbound body are those the suffix alone gives: they equal
\* what the same request yields with the thinking fields removed from its
\* body.
C18_SuffixWinsOverBody ==
    (atpc = "applied" /\ RecognisedSuffix(atSuffix) /\ atOut.err = "")
       => ThinkingFields(atOut.body, atProvider)
            = ThinkingFields(ApplyThinking(StripThinkingConfig(atBody, atProvider),
                                           atSuffix, atModel, atProvider).body,
                             atProvider)

\* the output token limit the thinking budget must stay below: the
\* request's maxOutputTokens or, when absent, the model's default
EffectiveMax ==
    IF atBody.maxOut # Absent THEN atBody.maxOut ELSE atModel.MaxCompletionTokens

\* the thinking normalization has produced the outbound payload
ThinkingNormalized == atpc # "input" /\ atOut.err = ""

BudgetWithinLimits(b) == atModel.Thinking.Min <= b /\ b <= EffectiveMax - 1

\* C19 as claimed: for a Claude model on Antigravity the outbound payload
\* has no thinkingConfig at all or a thinkingBudget b with
\* Min <= b <= maxOutputTokens - 1.
C19_BudgetWithinLimitsAsClaimed ==
    ThinkingNormalized
       => \/ ~hasThinkingConfigField(atOut.body)
          \/ atOut.body.tbudget # Absent /\ BudgetWithinLimits(atOut.body.tbudget)

\* C19 as amended: the outbound payload has no thinkingBudget (thinkingConfig
\* deleted, or carried without a budget as received), or the dynamic budget
\* -1 of a model with DynamicAllowed, or a thinkingBudget b with
\* Min <= b <= maxOutputTokens - 1; a thinkingConfig is kept without a budget
\* only if the request carried it so.
C19_BudgetWithinLimits ==
    ThinkingNormalized
       => /\ \/ atOut.body.tbudget = Absent
             \/ atOut.body.tbudget = -1 /\ atModel.Thinking.DynamicAllowed
             \/ BudgetWithinLimits(atOut.body.tbudget)
          /\ (atOut.body.tbudget = Absent /\ atBody.tbudget # Absent)
                => ~hasThinkingConfigField(atOut.body)

\* a budget of 5000 with maxOutputTokens 4000 went out capped to 3999
C19_Witness ==
    /\ atpc = "normalized"
    /\ atModel.Thinking.Min = 1024
    /\ atBody.tbudget = 5000 /\ atBody.maxOut = 4000
    /\ atOut.body.tbudget = 3999

(***************************************************************************)
(* Payload rules                                                           *)
(***************************************************************************)
\* the default rules and the override rules in the order they are applied
DefaultRules == plRules.Default \o plRules.DefaultRaw

OverrideRules == plRules.Override \o plRules.OverrideRaw

\* the positions of the rules of a list that match the request and set f
MatchingSetters(list, f) ==
    { i \in 1 .. Len(list) :
        /\ payloadRuleMatchesModels(list[i], RequestProtocol, << RequestModel >>)
        /\ list[i].Params[f] # Absent }

Earliest(S) == CHOOSE i \in S : \A j \in S : i <= j

Latest(S) == CHOOSE i \in S : \A j \in S : i >= j

\* the document a default is checked against: the original payload, or
\* the translated one when no original was handed in
InOriginal(f) ==
    IF plOriginal.empty THEN plPayload.doc[f] # Absent
    ELSE plOriginal.doc[f] # Absent

\* C20: a default rule writes a field only if the original payload lacks
\* it, and of several matching default rules setting a field the earliest
\* one's value is in the output; an override rule writes its field
\* unconditionally, and of several matching override rules setting a field
\* the latest one's value is in the output (an override prevailing over a
\* default of the same field).
C20_DefaultFirstOverrideLast ==
    plOut.returned =>
        \A f \in PayloadFields :
            LET ds == MatchingSetters(DefaultRules, f)
                os == MatchingSetters(OverrideRules, f)
                outv == plOut.bytes.doc[f]
            IN  /\ os # {} => outv = OverrideRules[Latest(os)].Params[f]
                /\ (os = {} /\ ~plOriginal.empty /\ plOriginal.doc[f] # Absent)
                       => outv = plPayload.doc[f]
                /\ (os = {} /\ ds # {} /\ ~InOriginal(f))
                       => outv = DefaultRules[Earliest(ds)].Params[f]

\* two matching defaults with different values for a field the original
\* lacks but the translated payload has, and two matching overrides with
\* different values for the other field, which the original has
C20_Witness ==
    /\ plOut.returned
    /\ ~plOriginal.empty
    /\ \E f \in PayloadFields, g \in PayloadFields :
        /\ f # g
        /\ plOriginal.doc[f] = Absent /\ plPayload.doc[f] # Absent
        /\ plOriginal.doc[g] # Absent
        /\ MatchingSetters(plRules.Default, f) = {1, 2}
        /\ plRules.Default[1].Params[f] # plRules.Default[2].Params[f]
        /\ MatchingSetters(OverrideRules, f) = {}
        /\ plOut.bytes.doc[f] = plRules.Default[1].Params[f]
        /\ MatchingSetters(plRules.Override, g) = {1, 2}
        /\ plRules.Override[1].Params[g] # plRules.Override[2].Params[g]
        /\ plRules.OverrideRaw = << >>
        /\ plOut.bytes.doc[g] = plRules.Override[2].Params[g]

(***************************************************************************)
(* The Claude executor                                                     *)
(***************************************************************************)
\* a name of the request that is not the name of one of its built-in tools
IsCustomName(name) ==
    /\ name # NoName
    /\ ~\E i \in 1 .. Len(ceTools) : ceTools[i].type # "" /\ ceTools[i].name = name

\* the outbound name is the declared one under a single proxy_
CarriesPrefixOnce(out, declared) == out.n = 1 /\ out.base = declared.base

C22_StripInvertsPrefix ==
    (ceResp.received /\ isClaudeOAuthToken(ceApiKey)) =>
        ceResp.client = ceTools[ceResp.tool].name

\* the set of positions of an entry in a header
Occurrences(header, beta) == { i \in 1 .. Len(header) : header[i] = beta }

\* C23: the outbound Anthropic-Beta header holds every non-empty entry of
\* the body's betas array exactly once, holds oauth-2025-04-20 for an OAuth
\* token whatever header the client sent, and the forwarded body has no
\* betas field.
C23_BetasMerged ==
    ceSent.sent =>
        /\ ceBetas.kind = "array" =>
              \A i \in 1 .. Len(ceBetas.items) :
                  ceBetas.items[i] # EmptyBeta =>
                      Cardinality(Occurrences(ceSent.header, ceBetas.items[i])) = 1
        /\ isClaudeOAuthToken(ceApiKey) => Occurrences(ceSent.header, OAuthBeta) # {}
        /\ ~ceSent.hasBetas

\* C24: when tool_choice.type is "any" or "tool" the body sent upstream has
\* no thinking field, whatever the suffix and the body configured.
C24_NoThinkingWhenToolForced ==
    (ceSent.sent /\ ceToolChoice.type \in {"any", "tool"}) =>
        ~hasThinkingField(ceSent.thinking)

\* a forced tool choice on a request whose thinking the engine had enabled
C24_Witness ==
    /\ ceSent.sent
    /\ ceToolChoice.type = "tool"
    /\ atSuffix = "8192"
    /\ hasThinkingField(ApplyThinking(atBody, atSuffix, atModel, "claude").body)
    /\ ~hasThinkingField(ceSent.thinking)

(***************************************************************************)
(* OAuth model-name mapping                                                *)
(***************************************************************************)
\* the entries of the auth's channel that alias the requested model to
\* another name
AliasEntries ==
    LET channel == modelMappingChannel(omAuth)
    IN  IF channel \notin MappingChannels \/ omRequested = "" THEN {}
        ELSE { i \in 1 .. Len(omMappings[channel]) :
                 LET e == omMappings[channel][i]
                 IN  /\ e.Name # "" /\ e.Alias # ""
                     /\ EqualFold(e.Alias, omRequested)
                     /\ ~EqualFold(e.Name, e.Alias) }

\* the upstream name of the first such entry
UpstreamOfAlias ==
    omMappings[modelMappingChannel(omAuth)][CHOOSE i \in AliasEntries :
                                                \A j \in AliasEntries : i <= j].Name

\* the request model is the upstream's name wherever the channel has an alias
MappedToUpstream ==
    (omOut.returned /\ AliasEntries # {}) => omOut.model = UpstreamOfAlias

\* C25: when the channel of the selected auth has an alias entry for the
\* requested model, the request handed to the executor has Model equal to
\* the upstream's name and its metadata holds, under
\* model_mapping_original_model, the model the client requested.
C25_MappingRecordsRequested ==
    (omOut.returned /\ AliasEntries # {}) =>
        /\ omOut.model = UpstreamOfAlias
        /\ omOut.metadata[ModelMappingOriginalModelMetadataKey] = omRequested

(***************************************************************************)
(* The user-ID cache                                                       *)
(***************************************************************************)
\* the calls for a non-empty key that have returned
ReturnedCalls == { i \in 1 .. Len(ucCalls) : ucCalls[i].key # "" /\ ucCalls[i].id # 0 }

\* the calls for the key of call j, j aside
CallsOfKey(j) == { i \in 1 .. Len(ucCalls) : i # j /\ ucCalls[i].key = ucCalls[j].key }

\* C26: two calls of cachedUserID for the same non-empty API key, the later
\* made less than userIDTTL after the earlier, return the same user ID.
C26_SameIDWithinTTL ==
    \A i \in ReturnedCalls : \A j \in ReturnedCalls :
        ( /\ ucCalls[i].key = ucCalls[j].key
          /\ ucCalls[i].now <= ucCalls[j].now
          /\ ucCalls[j].now - ucCalls[i].now < userIDTTL )
        => ucCalls[j].id = ucCalls[i].id

\* call j was made at least userIDTTL after the last call made before it
\* for its key, and there was one
AfterQuietHour(j) ==
    /\ \E i \in CallsOfKey(j) : ucCalls[i].now < ucCalls[j].now
    /\ \A i \in CallsOfKey(j) :
          \/ ucCalls[i].now + userIDTTL <= ucCalls[j].now
          \/ ucCalls[i].now > ucCalls[j].now

\* the calls that generated the ID call j returned
MakersOf(j) == { i \in 1 .. Len(ucCalls) : ucCalls[i].made = ucCalls[j].id }

\* C27: a call made at least userIDTTL after the last call for its key
\* returns an ID that was generated by a call made no earlier than itself,
\* never one generated before the quiet hour.
C27_NewIDAfterExpiry ==
    \A j \in ReturnedCalls :
        AfterQuietHour(j) =>
            \A i \in MakersOf(j) : ucCalls[i].now >= ucCalls[j].now

\* a call after a quiet hour has returned, the earlier calls have returned
\* another ID, and the sweep is not in progress
C27_Witness ==
    \E j \in ReturnedCalls :
        /\ AfterQuietHour(j)
        /\ \E i \in CallsOfKey(j) :
              i \in ReturnedCalls /\ ucCalls[i].now < ucCalls[j].now
        /\ ucPurgeNow = -1

(***************************************************************************)
(* The signature cache                                                     *)
(***************************************************************************)
\* the operations that wrote or refreshed the entry
SigTouches == { i \in 1 .. Len(sgOps) : sgOps[i].kind \in {"cache", "hit"} }

\* the lookups that have returned
SigLookups == { j \in 1 .. Len(sgOps) : sgOps[j].kind \in {"hit", "miss"} }

\* a lookup less than the TTL after an earlier write or successful lookup
\* returns the entry
ReadWithinTTLHits ==
    \A j \in SigLookups : \A i \in SigTouches :
        ( /\ i < j
          /\ sgOps[i].at <= sgOps[j].at
          /\ sgOps[j].at - sgOps[i].at < SignatureCacheTTL )
        => sgOps[j].kind = "hit"

\* a lookup returns the entry only if it was written or successfully looked
\* up no longer than the TTL before
StaleNeverReturned ==
    \A j \in SigLookups :
        sgOps[j].kind = "hit" =>
            \E i \in SigTouches :
                /\ i < j
                /\ sgOps[j].at - sgOps[i].at <= SignatureCacheTTL
                /\ sgOps[j].out \in { sgOps[k].out : k \in { c \in 1 .. j : sgOps[c].kind = "cache" } }

\* C28: a successful GetCachedSignature resets the timestamp of the entry:
\* an entry looked up at intervals shorter than SignatureCacheTTL is always
\* returned, and an entry neither looked up nor rewritten for longer than
\* SignatureCacheTTL is never returned.
C28_SlidingTTL == ReadWithinTTLHits /\ StaleNeverReturned

(***************************************************************************)
(* The error response body                                                 *)
(***************************************************************************)
\* the type and code the envelope is to carry for a status
ExpectedType(status) ==
    IF status = 401 THEN "authentication_error"
    ELSE IF status = 403 THEN "permission_error"
    ELSE IF status = 429 THEN "rate_limit_error"
    ELSE IF status >= 500 THEN "server_error"
    ELSE "invalid_request_error"

ExpectedCode(status) ==
    IF status = 401 THEN "invalid_api_key"
    ELSE IF status = 403 THEN "insufficient_quota"
    ELSE IF status = 404 THEN "model_not_found"
    ELSE IF status = 429 THEN "rate_limit_exceeded"
    ELSE IF status >= 500 THEN "internal_server_error"
    ELSE weBody.code

ChunkFailure ==
    /\ fpc = "recv"
    /\ ~sentPayload
    /\ epc[cur] = "send"
    /\ epend[cur].Err # Nil
    /\ epend'[cur] = NoChunk

\* AuthManager.ExecuteStream is invoked and returns an error instead of a
\* channel, before any payload was forwarded
ExecuteStreamFailure ==
    /\ ~sentPayload
    /\ calls' = calls + 1
    /\ cur' = cur

\* an error message is sent to the client
Surfaced == errSends' = errSends + 1

\* the status of the message sent
SurfacedStatus == errChan'[Len(errChan')]

\* an error chunk is surfaced if and only if its status is not retry-eligible
\* or the configured number of re-invocations has been made; otherwise
\* ExecuteStream is invoked again
ChunkFailureRule ==
    ChunkFailure =>
        /\ (Surfaced /\ calls' = calls)
              <=> (~RetryEligibleStatus(epend[cur].Err) \/ bootstrapRetries >= ConfiguredRetries)
        /\ calls' = calls + 1
              <=> (RetryEligibleStatus(epend[cur].Err) /\ bootstrapRetries < ConfiguredRetries)

\* the same rule for an error returned by ExecuteStream itself
ExecuteStreamFailureRule ==
    ExecuteStreamFailure =>
        (Surfaced <=> (~RetryEligibleStatus(SurfacedStatus) \/ bootstrapRetries' >= ConfiguredRetries))

\* an error returned by ExecuteStream itself is always surfaced
ExecuteStreamFailureSurfaced ==
    ExecuteStreamFailure =>
        /\ Surfaced
        /\ fpc' = "done"

\* C30 as stated: a failure before any payload was forwarded is surfaced if
\* and only if its status is outside {0, 401, 402, 403, 408, 429, >= 500} or
\* BootstrapRetries re-invocations have been made, for an error chunk and for
\* an error returned by ExecuteStream alike.
C30_SurfacedIffAsClaimed == [][ChunkFailureRule /\ ExecuteStreamFailureRule]_vars

\* C30 (amended): the rule holds for failures delivered as an error chunk;
\* an error returned by ExecuteStream itself, on the first invocation or on
\* a re-invocation, is surfaced at once whatever its status and the number
\* of re-invocations made.
C30_SurfacedIff == [][ChunkFailureRule /\ ExecuteStreamFailureSurfaced]_vars

\* every configured re-invocation was made, each attempt failed with an
\* error chunk, and the last error was surfaced
C30_Witness ==
    /\ fpc = "done"
    /\ ~sentPayload
    /\ ConfiguredRetries >= 1
    /\ bootstrapRetries = ConfiguredRetries
    /\ calls = 1 + ConfiguredRetries
    /\ cur = calls
    /\ errChan = << 503 >>

(***************************************************************************)
(* No fresh signature is lost                                              *)
(***************************************************************************)
\* the CacheSignature calls that had returned when lookup j began
StoredBefore(j) == { i \in 1 .. sgOps[j].since : sgOps[i].kind = "cache" }

\* C31: a signature stored by a CacheSignature call that has returned, and
\* that has not expired since, is returned by every GetCachedSignature that
\* begins later, unless a later CacheSignature replaced it, under every
\* interleaving of lookups, stores and the sweeper.
C31_FreshNeverLost ==
    \A j \in SigLookups : \A i \in StoredBefore(j) :
        sgOps[j].at - sgOps[i].at <= SignatureCacheTTL =>
            /\ sgOps[j].kind = "hit"
            /\ \E k \in i .. j - 1 : sgOps[k].kind = "cache" /\ sgOps[k].out = sgOps[j].out

(***************************************************************************)
(* Concurrent misses of the user-ID cache                                  *)
(***************************************************************************)
\* the calls that found the entry absent or expired and generated an ID
MissedCalls == { i \in ReturnedCalls : ucCalls[i].made # 0 }

Earlier(a, b) == IF a <= b THEN a ELSE b

Later(a, b) == IF a >= b THEN a ELSE b

\* calls i and j for one key ran at the same time, and both were over
\* before the TTL of an entry stored by either could run out
RanTogether(i, j) ==
    /\ i # j
    /\ ucCalls[i].key = ucCalls[j].key
    /\ (i \in ucCalls[j].with \/ j \in ucCalls[i].with)
    /\ Later(ucCalls[i].ret, ucCalls[j].ret) - Earlier(ucCalls[i].now, ucCalls[j].now)
          < userIDTTL

ZeroBudgetConfigs ==
    { parseSuffixToConfig("0"),
      extractClaudeConfig([EmptyBody EXCEPT !.ctype = "enabled", !.cbudget = 0]),
      extractGeminiConfig([EmptyBody EXCEPT !.tbudget = 0]) }

\* ValidateConfig has been applied to a zero budget for a model with a
\* Thinking block
ZeroBudgetValidated ==
    /\ thpc # "input"
    /\ ~thSupport.isNil
    /\ thConfig \in ZeroBudgetConfigs

\* thinking explicitly disabled: Mode none with a Budget of 0
ExplicitlyDisabled(c) == c.Mode = "none" /\ c.Budget = 0

IsBuiltinName(name) ==
    /\ name # NoName
    /\ \E i \in 1 .. Len(ceTools) : ceTools[i].type # "" /\ ceTools[i].name = name

\* an outbound reference follows the tool it refers to: unchanged for a
\* built-in tool, under proxy_ once for a custom one
ReferenceFollowsTool(out, declared) ==
    /\ IsBuiltinName(declared) => out = declared
    /\ IsCustomName(declared) => CarriesPrefixOnce(out, declared)

\* C34: after applyClaudeToolPrefix, tool_choice.name and every tool_use
\* name of the history are prefixed if and only if the tool they refer to
\* is a custom tool; a reference to a built-in tool keeps its name.
C34_ReferencesFollowTools ==
    (ceSent.sent /\ isClaudeOAuthToken(ceApiKey)) =>
        /\ ceToolChoice.type = "tool"
              => ReferenceFollowsTool(ceSent.toolChoice.name, ceToolChoice.name)
        /\ \A j \in 1 .. Len(ceHistory) :
              ceHistory[j].type = "tool_use"
                 => ReferenceFollowsTool(ceSent.history[j].name, ceHistory[j].name)

\* a Claude model with a Thinking block was sent a thinking budget and no
\* maxOutputTokens, and the outbound payload has been produced
BudgetWithoutMaxSent ==
    /\ ThinkingNormalized
    /\ ~atModel.Thinking.isNil
    /\ atBody.tbudget # Absent
    /\ atBody.maxOut = Absent

\* C35: for a Claude model on Antigravity whose request carries a thinking
\* budget but no maxOutputTokens, the outbound maxOutputTokens is the
\* model's default MaxCompletionTokens in every case, the one where
\* thinkingConfig is deleted included.
C35_DefaultMaxAlwaysSet ==
    BudgetWithoutMaxSent => atOut.body.maxOut = atModel.MaxCompletionTokens

\* the same wherever the outbound payload keeps a thinkingBudget
C35_DefaultMaxSetWithBudget ==
    (BudgetWithoutMaxSent /\ atOut.body.tbudget # Absent)
       => atOut.body.maxOut = atModel.MaxCompletionTokens

(***************************************************************************)
(* The Antigravity base-URL fallback                                       *)
(***************************************************************************)
\* the auth carries a custom base_url: one that is not blank
CustomBaseURLs ==
    { v.core : v \in { w \in {fbAuth.attr, fbAuth.meta} : w.core # "" } }

\* the fixed order: daily, daily sandbox, production
FixedOrder == << antigravityBaseURLDaily, antigravitySandboxBaseURLDaily,
                 antigravityBaseURLProd >>

\* a transport error: the request failed or the response could not be read
TransportError(o) == o.kind = "doError" \/ o.readErr

RateLimited(o) == o.kind = "response" /\ ~o.readErr /\ o.status = StatusTooManyRequests

\* a readable response with a status outside 2xx other than 429
OtherErrorStatus(o) ==
    /\ o.kind = "response" /\ ~o.readErr
    /\ o.status < StatusOK \/ o.status >= StatusMultipleChoices
    /\ o.status # StatusTooManyRequests

\* what the call returns for a failed request
FailureReturned(o) ==
    IF o.kind = "doError" THEN [returned |-> TRUE, status |-> 0, err |-> "do"]
    ELSE IF o.readErr THEN [returned |-> TRUE, status |-> 0, err |-> "read"]
    ELSE [returned |-> TRUE, status |-> o.status, err |-> ""]

\* C36: one call tries the base URLs in the order daily, daily sandbox,
\* production (the custom base_url alone when the auth has one), moves to
\* the next URL only after a transport error or a 429, returns any other
\* non-2xx status at once, issues at most 3 requests (exactly 1 with a
\* custom base_url) and returns the last failure when all are exhausted.
C36_FallbackOrder ==
    LET n == Len(fbRequests)
        tried == [i \in 1 .. n |-> fbRequests[i].url]
    IN  /\ n <= 3
        /\ CustomBaseURLs = {} => tried = SubSeq(FixedOrder, 1, n)
        /\ CustomBaseURLs # {}
             => /\ n <= 1
                /\ n = 1 => tried[1] \in CustomBaseURLs
                /\ fbpc = "done" => n = 1
        /\ \A i \in 1 .. n :
              /\ i < n => TransportError(fbRequests[i].outcome)
                             \/ RateLimited(fbRequests[i].outcome)
              /\ OtherErrorStatus(fbRequests[i].outcome)
                    => /\ i = n
                       /\ fbResult = FailureReturned(fbRequests[i].outcome)
        /\ (fbpc = "done" /\ n = Len(fbBaseURLs)
               /\ (TransportError(fbRequests[n].outcome) \/ RateLimited(fbRequests[n].outcome)))
              => fbResult = FailureReturned(fbRequests[n].outcome)

\* all three base URLs were tried, after a transport error and a 429, and
\* the 429 of production was returned
C36_Witness ==
    /\ fbpc = "done"
    /\ Len(fbRequests) = 3
    /\ fbRequests[1].outcome = DoError
    /\ RateLimited(fbRequests[2].outcome)
    /\ fbRequests[3].url = antigravityBaseURLProd
    /\ fbResult = [returned |-> TRUE, status |-> StatusTooManyRequests, err |-> ""]

(***************************************************************************)
(* OAuth model aliases and provider resolution                             *)
(***************************************************************************)
\* the provider set the requested model has when no alias table is
\* configured
ProvidersWithoutAliases ==
    { a.Provider : a \in { b \in AliasAuths :
          \E i \in 1 .. Len(baseModels(b)) : baseModels(b)[i] = alRequested } }

\* the names some channel's alias entry mentions, as alias or as upstream
AliasedNames ==
    UNION { { alMappings[c][i].Name : i \in 1 .. Len(alMappings[c]) }
               \cup { alMappings[c][i].Alias : i \in 1 .. Len(alMappings[c]) } :
            c \in MappingChannels }

\* the selected auth's own channel has an alias entry for the requested model
OwnChannelAliases ==
    /\ modelMappingChannel(alAuth) \in MappingChannels
    /\ \E i \in 1 .. Len(alMappings[modelMappingChannel(alAuth)]) :
          EqualFold(alMappings[modelMappingChannel(alAuth)][i].Alias, alRequested)

\* the alias mapping touches the model name only, after selection, and only
\* through an alias of the selected auth's own channel
RewritesOwnChannelOnly ==
    /\ alpc # "executed" => alOut = NotExecuted
    /\ alpc = "executed"
         => /\ alOut.model # alRequested => OwnChannelAliases
            /\ alAuth.Provider \in alProviders

\* C37 as claimed: aliases are applied only after selection and only to the
\* upstream model name; the provider set is the same whether or not an
\* alias table is configured; an alias of one channel never rewrites a
\* request executed with an auth of another channel or with an API key.
C37_AliasesAfterSelectionAsClaimed ==
    /\ RewritesOwnChannelOnly
    /\ alpc \in {"resolved", "rejected", "selected", "executed"}
          => alProviders = ProvidersWithoutAliases

\* C37 as amended: the same, the provider set being that of no alias table
\* unless the requested model is an alias or the upstream name of an alias
\* entry.
C37_AliasesAfterSelection ==
    /\ RewritesOwnChannelOnly
    /\ (alpc \in {"resolved", "rejected", "selected", "executed"}
           /\ alRequested \notin AliasedNames)
          => alProviders = ProvidersWithoutAliases

\* a request for a name that is claude's alias and a model of codex's own
\* went out through the codex credential under the requested name
C37_Witness ==
    /\ alpc = "executed"
    /\ alMappings["claude"] # << >> /\ alMappings["codex"] = << >>
    /\ alRequested = "alias-model"
    /\ alAuth.id = "codex-oauth"
    /\ alOut.model = "alias-model"

(***************************************************************************)
(* C38: the entries of one session are bounded                              *)
(***************************************************************************)
\* no session holds more than MaxEntriesPerSession entries
SessionsBounded ==
    \A s \in CacheSessions :
        Cardinality(DOMAIN scSessions[s].entries) <= MaxEntriesPerSession

\* the step stores text for session s: nothing is evicted from a session
\* that is not full; from a full one the expired entries are evicted and,
\* if it is still full, its oldest quarter, and then the entry is stored
StoresWithEviction(s, text) ==
    LET before == scSessions[s].entries
        after == scSessions'[s].entries
        key == hashText(text)
        full == Cardinality(DOMAIN before) >= MaxEntriesPerSession
        expired == { k \in DOMAIN before :
                        scNow - before[k].Timestamp > SignatureCacheTTL }
        live == (DOMAIN before) \ expired
        stillFull == Cardinality(live) >= MaxEntriesPerSession
        quarter == IF Cardinality(live) < 4 THEN 1 ELSE Cardinality(live) \div 4
    IN  /\ key \in DOMAIN after
        /\ after[key].Timestamp = scNow
        /\ \A k \in (DOMAIN after) \ {key} : k \in DOMAIN before /\ after[k] = before[k]
        /\ ~full => DOMAIN after = (DOMAIN before) \cup {key}
        /\ full /\ ~stillFull => DOMAIN after = live \cup {key}
        /\ full /\ stillFull =>
              \E R \in SUBSET live :
                 /\ Cardinality(R) = quarter
                 /\ \A r \in R, k \in live \ R :
                        before[r].Timestamp <= before[k].Timestamp
                 /\ DOMAIN after = (live \ R) \cup {key}
        /\ \A o \in CacheSessions \ {s} : scSessions'[o] = scSessions[o]

StoredWithEviction ==
    (scLast'.kind = "stored" /\ scNow' = scNow)
        => \E s \in CacheSessions, text \in CacheTexts : StoresWithEviction(s, text)

\* C38: after any sequence of CacheSignature calls no session holds more
\* than MaxEntriesPerSession entries: a call that finds its session full
\* evicts the expired entries first and, if the session is still full, the
\* oldest quarter of its entries, before it stores the new entry
C38_SessionBounded == []SessionsBounded /\ [][StoredWithEviction]_vars

\* a call found its session full of entries that had not expired, evicted
\* the oldest one and stored its own, and the session is full again
C38_Witness ==
    /\ scLast.kind = "stored"
    /\ scLast.oldest >= 1
    /\ \E s \in CacheSessions :
          Cardinality(DOMAIN scSessions[s].entries) = MaxEntriesPerSession

\* a call found its session full and evicted expired entries
C38_ExpiredEvicted == scLast.kind = "stored" /\ scLast.expired >= 1

(***************************************************************************)
(* C39: what a lookup of the signature cache returns                        *)
(***************************************************************************)
\* the model group and text of the last call
LastPair == << GetModelGroup(gcLast.model), gcLast.text >>

\* a signature a lookup returns is the one cached last for its own model
\* group and text
ReturnsLatest ==
    (gcLast.kind = "looked up" /\ gcLast.ret \notin {"", SkipValidator})
        => gcLast.ret = gcLatest[LastPair]

\* a lookup that follows the caching of its own model group and text
\* within the TTL returns the signature cached
ReturnedAfterStore ==
    ( /\ gcLast.kind = "stored"
      /\ gcLast'.kind = "looked up"
      /\ GetModelGroup(gcLast'.model) = GetModelGroup(gcLast.model)
      /\ gcLast'.text = gcLast.text
      /\ gcNow - gcLast.at <= SignatureCacheTTL )
        => gcLast'.ret = gcLatest[LastPair]

\* a call CacheSignature rejects leaves the cache as it was
RejectedLeavesCache ==
    (gcLast'.kind = "rejected" /\ gcLast.kind # "rejected") => gcSessions' = gcSessions

\* C39: after CacheSignature(key, text, s) with a text and a signature of
\* at least 50 characters, GetCachedSignature(key, text) returns the
\* signature cached last for that key and text, never one cached for
\* another model group or another text, and a call with an empty text, an
\* empty signature or a signature under 50 characters leaves the cache
\* unchanged
C39_ReturnsOwnLatest ==
    []ReturnsLatest /\ [][ReturnedAfterStore /\ RejectedLeavesCache]_vars

\* the part of C39 that holds under every interleaving: a signature
\* returned was cached last for the lookup's own model group and text, and
\* a rejected call leaves the cache unchanged
C39_OwnOrNothing == []ReturnsLatest /\ [][RejectedLeavesCache]_vars

\* a lookup returned the second signature cached for its group and text
\* while the same text holds another signature for another group
C39_Witness ==
    /\ gcLast.kind = "looked up"
    /\ gcLast.ret = "sig-B"
    /\ LastPair = <<"claude", "t1">>
    /\ gcLatest[<<"gemini", "t1">>] = "sig-A"
    /\ groupKey("gemini-pro", "t1") \in DOMAIN gcSessions[groupKey("gemini-pro", "t1")].entries

\* a rejected call came after entries were cached
C39_RejectedWitness ==
    /\ gcLast.kind = "rejected"
    /\ \E k \in GroupKeys : gcSessions[k].exists

(***************************************************************************)
(* C40: what ClearSignatureCache removes                                    *)
(***************************************************************************)
\* the keys whose entries are cached for a session ID: the key itself when
\* the ID is a key of the map, the keys of the group when it is a model group
HeldFor(id) ==
    IF id \in GroupKeys THEN {id}
    ELSE { k \in GroupKeys : \E t \in GroupTexts : k = hashText(<< id[1], "#", t >>) }

\* the step is a call of ClearSignatureCache
ClearStep == gcLast'.kind = "cleared" /\ gcLast' # gcLast

\* a clear with a session ID leaves nothing cached for that session
ClearRemovesSession ==
    (ClearStep /\ gcLast'.id # NoSessionID)
        => \A k \in HeldFor(gcLast'.id) : DOMAIN gcSessions'[k].entries = {}

\* a clear with a session ID leaves the entries of the other sessions
ClearKeepsOthers ==
    (ClearStep /\ gcLast'.id # NoSessionID)
        => \A k \in GroupKeys \ HeldFor(gcLast'.id) :
              gcSessions'[k].entries = gcSessions[k].entries

\* a clear without a session ID leaves nothing cached
ClearRemovesAll ==
    (ClearStep /\ gcLast'.id = NoSessionID)
        => \A k \in GroupKeys : DOMAIN gcSessions'[k].entries = {}

\* C40: ClearSignatureCache(id) with a non-empty id removes every entry
\* cached for that session and no entry of another session, and
\* ClearSignatureCache("") removes every entry of every session
C40_ClearBySession == [][ClearRemovesSession /\ ClearKeepsOthers /\ ClearRemovesAll]_vars

\* the part of C40 that holds: a clear with an ID removes no entry of
\* another session, and a clear without one removes every entry
C40_ClearAllOrNothingElse == [][ClearKeepsOthers /\ ClearRemovesAll]_vars

\* a clear found entries cached and left none
C40_ClearedAll ==
    /\ gcLast.kind = "cleared"
    /\ gcLast.id = NoSessionID
    /\ \E p \in GroupPairs : gcLatest[p] # ""
    /\ gcCaller = NoCaller

\* a clear with a session ID left the entry cached under that ID
C40_ClearedNothing ==
    /\ gcLast.kind = "cleared"
    /\ gcLast.id \in GroupKeys
    /\ gcLast.id \in DOMAIN gcSessions[gcLast.id].entries

====
